---- MODULE Spec2Model ----
(***************************************************************************)
(* A model of the consensus and relay core of yeeroot2:                    *)
(*   - frame/sharding: the per-block scale-out phase state machine         *)
(*   - client/consensus/pow: job submission and manager registration       *)
(*   - client/pow: the Sha3 mining algorithm                               *)
(*   - client/util, primitives/relay: the relay transfer decoders          *)
(* Each component has its own specification over the shared variables.     *)
(***************************************************************************)
EXTENDS Integers, Sequences, FiniteSets, TLC

VARIABLES
    \* ---- frame/sharding ----
    block_number,            \* system::Module::block_number()
    scale_out_observe_blocks,\* storage ScaleOutObserveBlocks (genesis config)
    CurrentShardInfo,        \* storage CurrentShardInfo : Option<ShardInfo>
    CurrentScaleOutPhase,    \* storage CurrentScaleOutPhase : Option<ScaleOutPhase>
    digest,                  \* logs deposited in the current block's header
    block_pc,                \* position in the block: initialized / applied / finalized
    dispatch_result,         \* result of the last set_shard_info dispatch
    phase_history,           \* history: every value stored in CurrentScaleOutPhase, with its block
    accessor_result,         \* what the last ShardingInfo accessor called in this block returned
    \* ---- client/consensus/pow: DefaultJobManager ----
    shard_extra,             \* DefaultJobManager.shard_extra
    held_job,                \* the job a caller obtained from get_job (and may have sealed)
    gj_result,               \* outcome of the last get_job
    proposer_calls,          \* proposer invocations made by the last get_job
    sj_pc,                   \* position of the running submit_job
    sj_job,                  \* the job passed to the running submit_job
    sj_calls,                \* calls made so far by the running submit_job, in order
    sj_result,               \* what submit_job returned
    imported,                \* blocks the block-import backend has accepted
    chain_head,              \* the best chain as the client sees it now, with the target it gives
    sj_prev,                 \* history: the verdict on the held job before the last one
    sj_last,                 \* history: the last verdict of submit_job's verification on the held job
    \* ---- client/consensus/pow: start_pow ----
    job_manager,             \* the shared slot Arc<RwLock<Option<Arc<dyn JobManager>>>>
    reg_lock,                \* the caller holding the slot's write lock, if any
    sp_pc,                   \* position of each start_pow call
    workers,                 \* the callers whose worker has been started
    registered_by,           \* history: the callers that stored a manager in the slot, in order
    \* ---- client/pow: Sha3Algorithm ----
    mn_pc,                   \* position of the running mine call
    mn_args,                 \* its arguments (pre_hash, difficulty, round)
    mn_attempts,             \* iterations of its loop made so far
    mn_result,               \* what mine returned: None or Some(raw seal)
    vf_args,                 \* arguments of the last verify call
    vf_result,               \* what the last verify call returned
    \* ---- client/util: relay_decode ----
    cd_x,                    \* the transfer the buffer was encoded from
    cd_buf,                  \* the bytes handed to a decoder
    cd_result,               \* which decoder was called last and what it returned
    cd_cut,                  \* whether the buffer was cut short, and which decoder had accepted it whole
    \* ---- frame/relay ----
    rl_call,                 \* the arguments of the last transfer call
    rl_forwarded,            \* history: the calls handed on to a relay_transfer, with the hash they came with
    rl_result,               \* what the last transfer call returned
    \* ---- client/consensus/pow: start_worker and DefaultWorker ----
    wk_mine,                 \* the mine argument of start_worker
    wk_pc,                   \* position of the worker: in start_worker, in the loop closure, in on_work
    stop_sign,               \* DefaultWorker.stop_sign : Arc<RwLock<bool>>, its value and whether it is poisoned
    wk_syncing,              \* what sync_oracle.is_major_syncing() answers now
    wk_on_exit,              \* whether the on_exit future has completed
    wk_major_syncing,        \* what is_major_syncing() answered in this iteration, if asked
    wk_on_work_called,       \* whether this iteration called on_work
    wk_delay,                \* the Delay the loop is waiting on, if any
    wk_i,                    \* the nonce index of on_proposal_block's search
    wk_job,                  \* the job on_proposal_block was called with
    wk_log,                  \* history: the calls on_proposal_block has made, in order, with their arguments
    stop_sign_writes,        \* history: who wrote true to the stop flag, and where the worker was
    wk_outcome,              \* how the on_work of this iteration ended
    wk_break,                \* why the loop closure returned Loop::Break, if it did
    import_lock,             \* for each Mutex around the block import, the caller holding it
    importing,               \* the callers inside import_block of the block import
    ext_pc,                  \* position of the external caller of submit_job
    \* ---- client/consensus/pow: digest.rs ----
    dg_seal,                 \* the seal the digest item was built from by pow_seal, if it was
    dg_item,                 \* the digest item at hand
    dg_result                \* what as_pow_seal returned for it

sharding_vars == <<block_number, scale_out_observe_blocks, CurrentShardInfo,
                   CurrentScaleOutPhase, digest, block_pc, dispatch_result, phase_history,
                   accessor_result>>

job_vars == <<shard_extra, held_job, gj_result, proposer_calls,
              sj_pc, sj_job, sj_calls, sj_result, imported, chain_head, sj_prev, sj_last>>

startpow_vars == <<job_manager, reg_lock, sp_pc, workers, registered_by>>

pow_vars == <<mn_pc, mn_args, mn_attempts, mn_result, vf_args, vf_result>>

codec_vars == <<cd_x, cd_buf, cd_result, cd_cut>>

relay_vars == <<rl_call, rl_forwarded, rl_result>>

worker_vars == <<wk_mine, wk_pc, stop_sign, wk_syncing, wk_on_exit, wk_major_syncing,
                 wk_on_work_called, wk_delay, wk_i, wk_job, wk_log, stop_sign_writes,
                 wk_outcome, wk_break, import_lock, importing, ext_pc>>

digest_vars == <<dg_seal, dg_item, dg_result>>

vars == <<sharding_vars, job_vars, startpow_vars, pow_vars, codec_vars, relay_vars, worker_vars,
          digest_vars>>

\* what the actions of one component leave alone
outside_sharding == <<job_vars, startpow_vars, pow_vars, codec_vars, relay_vars, worker_vars, digest_vars>>
outside_job == <<sharding_vars, startpow_vars, pow_vars, codec_vars, relay_vars, worker_vars, digest_vars>>
outside_startpow == <<sharding_vars, job_vars, pow_vars, codec_vars, relay_vars, worker_vars, digest_vars>>
outside_codec == <<sharding_vars, job_vars, startpow_vars, pow_vars, relay_vars, worker_vars, digest_vars>>
outside_relay == <<sharding_vars, job_vars, startpow_vars, pow_vars, codec_vars, worker_vars, digest_vars>>
outside_pow == <<sharding_vars, job_vars, startpow_vars, codec_vars, relay_vars, worker_vars, digest_vars>>
outside_worker == <<sharding_vars, job_vars, startpow_vars, pow_vars, codec_vars, relay_vars, digest_vars>>
outside_digest == <<sharding_vars, job_vars, startpow_vars, pow_vars, codec_vars, relay_vars, worker_vars>>

(***************************************************************************)
(* Bounds of the model                                                     *)
(***************************************************************************)
MaxBlock == 9
MaxObserveBlocks == 2
HashSpace == 8
MaxNonce == 2
NumCallers == 4
MaxRound == 2

(***************************************************************************)
(* frame/sharding                                                          *)
(***************************************************************************)

\* ShardNum is u16 on every path that builds the inherent (InherentType = ShardInfo<u16>)
ShardNumBits == 16
ShardNumModulus == 2 ^ ShardNumBits

\* Option::None of the two storage items
NoShardInfo == [is_some |-> FALSE]
NoPhase == [tag |-> "None"]

\* Option<ScaleOut<u16>>
NoScaleOut == [is_some |-> FALSE]
SomeScaleOut(n) == [is_some |-> TRUE, shard_num |-> n]

\* the ShardInfo values the inherent may carry
ShardNums == {1}
ShardCounts == {2, 40000}
ScaleOutTargets == {2, 3}
ShardInfos == [num : ShardNums, count : ShardCounts,
               scale_out : {NoScaleOut} \cup {SomeScaleOut(n) : n \in ScaleOutTargets}]

Origins == {"None", "Signed"}

Started(u, s) == [tag |-> "Started", observe_util |-> u, shard_num |-> s]
NativeReady(u, s) == [tag |-> "NativeReady", observe_util |-> u, shard_num |-> s]
Ready(u, s) == [tag |-> "Ready", observe_util |-> u, shard_num |-> s]
Commiting(c) == [tag |-> "Commiting", shard_count |-> c]
Committed(s, c) == [tag |-> "Committed", shard_num |-> s, shard_count |-> c]

\* let target_shard_num = match info.scale_out { Some(s) => s.shard_num, None => info.num }
target_shard_num(info) ==
    IF info.scale_out.is_some THEN info.scale_out.shard_num ELSE info.num

\* mutant: the new shard count is not doubled
scale_out_shard_count_single(info) == info.count

\* info.count + info.count in u16 (wrapping, as in the release build of the runtime)
scale_out_shard_count(info) == (info.count + info.count) % ShardNumModulus

\* mutant: the observation window is not added to the block number
none_arm_no_window(phase, info, bn, w) ==
    IF info.scale_out.is_some THEN Started(bn, target_shard_num(info)) ELSE phase

\* None => if let Some(_) = info.scale_out { Started{block_number + W, target} }
none_arm(phase, info, bn, w) ==
    IF info.scale_out.is_some THEN Started(bn + w, target_shard_num(info)) ELSE phase

\* mutant: NativeReady keeps the shard_num stored in Started
started_arm_keeps_target(phase, info, bn, w) ==
    IF phase.observe_util = bn THEN NativeReady(bn + w, phase.shard_num) ELSE phase

\* Started{observe_util, ..} => if observe_util == block_number { NativeReady{..} }
started_arm(phase, info, bn, w) ==
    IF phase.observe_util = bn THEN NativeReady(bn + w, target_shard_num(info)) ELSE phase

\* mutant: NativeReady does not wait for its observe_util block
native_ready_arm_no_wait(phase, info, bn, w) ==
    Ready(bn + w, target_shard_num(info))

\* NativeReady{observe_util, ..} => if observe_util == block_number { Ready{..} }
native_ready_arm(phase, info, bn, w) ==
    IF phase.observe_util = bn THEN Ready(bn + w, target_shard_num(info)) ELSE phase

\* Ready{observe_util, ..} => if observe_util == block_number { Commiting{count + count} }
ready_arm(phase, info, bn, w) ==
    IF phase.observe_util = bn THEN Commiting(scale_out_shard_count(info)) ELSE phase

\* mutant: Commiting is left only once the inherent no longer announces a scale-out
commiting_arm_waits(phase, info, bn, w) ==
    IF info.scale_out.is_some
    THEN phase
    ELSE Committed(target_shard_num(info), phase.shard_count)

\* Commiting{shard_count} => Committed{target_shard_num, shard_count}
commiting_arm(phase, info, bn, w) ==
    Committed(target_shard_num(info), phase.shard_count)

\* mutant: a new scale-out is started straight from Committed
committed_arm_restart(phase, info, bn, w) ==
    IF info.scale_out.is_some THEN Started(bn + w, target_shard_num(info)) ELSE NoPhase

\* Committed{..} => None
committed_arm(phase, info, bn, w) == NoPhase

\* the match on current_scale_out_phase: the value stored by this call
next_scale_out_phase(phase, info, bn, w) ==
    CASE phase.tag = "None" -> none_arm(phase, info, bn, w)
      [] phase.tag = "Started" -> started_arm(phase, info, bn, w)
      [] phase.tag = "NativeReady" -> native_ready_arm(phase, info, bn, w)
      [] phase.tag = "Ready" -> ready_arm(phase, info, bn, w)
      [] phase.tag = "Commiting" -> commiting_arm(phase, info, bn, w)
      [] phase.tag = "Committed" -> committed_arm(phase, info, bn, w)

\* no ShardingInfo accessor has been called in this block
NotCalled == [called |-> FALSE]

\* storage GenesisShardingCount (genesis config)
genesis_sharding_count == 2

\* info.count + info.count does not fit the u16 ShardNum
add_overflows(info) == info.count + info.count >= ShardNumModulus

\* frame_system starts the next block: the number advances and the digest is fresh
initialize_block ==
    /\ block_pc = "finalized"
    /\ block_number < MaxBlock
    /\ block_number' = block_number + 1
    /\ digest' = <<>>
    /\ block_pc' = "initialized"
    /\ accessor_result' = NotCalled
    /\ UNCHANGED <<scale_out_observe_blocks, CurrentShardInfo, CurrentScaleOutPhase,
                   dispatch_result, phase_history>>
    /\ UNCHANGED outside_sharding

\* fn set_shard_info(origin, info), dispatched as the block's inherent (origin None)
set_shard_info_inherent(info) ==
    /\ block_pc = "initialized"
    /\ CurrentShardInfo' = [is_some |-> TRUE, num |-> info.num, count |-> info.count,
                            scale_out |-> info.scale_out]
    /\ CurrentScaleOutPhase' = next_scale_out_phase(CurrentScaleOutPhase, info,
                                                    block_number, scale_out_observe_blocks)
    /\ phase_history' = IF CurrentScaleOutPhase' # CurrentScaleOutPhase
                        THEN Append(phase_history,
                                    [at |-> block_number, phase |-> CurrentScaleOutPhase'])
                        ELSE phase_history
    /\ dispatch_result' = "Ok"
    /\ block_pc' = "applied"
    /\ UNCHANGED <<block_number, scale_out_observe_blocks, digest, accessor_result>>
    /\ UNCHANGED outside_sharding

\* the same call in a build with overflow checks: info.count + info.count panics in
\* the Ready arm, and the block that carries the inherent is not executed further
set_shard_info_overflow_panics(info) ==
    /\ block_pc = "initialized"
    /\ CurrentScaleOutPhase.tag = "Ready"
    /\ CurrentScaleOutPhase.observe_util = block_number
    /\ add_overflows(info)
    /\ dispatch_result' = "Panic"
    /\ block_pc' = "aborted"
    /\ UNCHANGED <<block_number, scale_out_observe_blocks, CurrentShardInfo,
                   CurrentScaleOutPhase, digest, phase_history, accessor_result>>
    /\ UNCHANGED outside_sharding

\* fn set_shard_info(origin, info) with an origin that ensure_none rejects
set_shard_info_bad_origin(origin, info) ==
    /\ block_pc \in {"initialized", "applied"}
    /\ origin # "None"
    /\ dispatch_result' = "BadOrigin"
    /\ UNCHANGED <<block_number, scale_out_observe_blocks, CurrentShardInfo,
                   CurrentScaleOutPhase, digest, block_pc, phase_history, accessor_result>>
    /\ UNCHANGED outside_sharding

\* mutant: every origin is let through
ensure_none_any(origin) == "Ok"

\* ensure_none(origin)?
ensure_none(origin) == IF origin = "None" THEN "Ok" ELSE "BadOrigin"

set_shard_info(origin, info) ==
    IF ensure_none(origin) = "Ok"
    THEN set_shard_info_inherent(info) \/ set_shard_info_overflow_panics(info)
    ELSE set_shard_info_bad_origin(origin, info)

\* RawLog::ShardMarker(num, count)
ShardMarkerLog(num, count) == [log |-> "ShardMarker", num |-> num, count |-> count]

\* RawLog::ScaleOutPhase(phase)
ScaleOutPhaseLog(phase) == [log |-> "ScaleOutPhase", phase |-> phase]

\* if let Some(shard_info) = Self::current_shard_info() { deposit_log(ShardMarker(..)) }
shard_marker_logs(info) ==
    IF info.is_some THEN <<ShardMarkerLog(info.num, info.count)>> ELSE <<>>

\* mutant: a log is deposited for the stored phase whatever it is
scale_out_phase_logs_always(phase) == <<ScaleOutPhaseLog(phase)>>

\* if let Some(scale_out_phase) = Self::current_scale_out_phase() { deposit_log(ScaleOutPhase(..)) }
scale_out_phase_logs(phase) ==
    IF phase # NoPhase THEN <<ScaleOutPhaseLog(phase)>> ELSE <<>>

\* mutant: on_finalize takes the phase out of storage when it logs it
on_finalize_takes_phase ==
    /\ block_pc = "applied"
    /\ digest' = digest
          \o shard_marker_logs(CurrentShardInfo)
          \o scale_out_phase_logs(CurrentScaleOutPhase)
    /\ CurrentScaleOutPhase' = NoPhase
    /\ block_pc' = "finalized"
    /\ UNCHANGED <<block_number, scale_out_observe_blocks, CurrentShardInfo,
                   dispatch_result, phase_history, accessor_result>>
    /\ UNCHANGED outside_sharding

\* fn on_finalize: the shard marker, then the phase, are deposited as logs
on_finalize ==
    /\ block_pc = "applied"
    /\ digest' = digest
          \o shard_marker_logs(CurrentShardInfo)
          \o scale_out_phase_logs(CurrentScaleOutPhase)
    /\ block_pc' = "finalized"
    /\ UNCHANGED <<block_number, scale_out_observe_blocks, CurrentShardInfo,
                   CurrentScaleOutPhase, dispatch_result, phase_history, accessor_result>>
    /\ UNCHANGED outside_sharding

\* what an accessor returns, or the panic of its expect()
Returned(accessor, v) == [called |-> TRUE, accessor |-> accessor, panicked |-> FALSE, value |-> v]
ExpectPanicked(accessor) == [called |-> TRUE, accessor |-> accessor, panicked |-> TRUE]

\* fn get_genesis_shard_count() -> ShardNum
get_genesis_shard_count ==
    /\ block_pc \in {"initialized", "applied"}
    /\ accessor_result' = Returned("get_genesis_shard_count", genesis_sharding_count)
    /\ UNCHANGED <<block_number, scale_out_observe_blocks, CurrentShardInfo,
                   CurrentScaleOutPhase, digest, block_pc, dispatch_result, phase_history>>
    /\ UNCHANGED outside_sharding

\* fn get_curr_shard() -> Option<ShardNum>: Some(current_shard_info().expect(..).num)
get_curr_shard ==
    /\ block_pc \in {"initialized", "applied"}
    /\ accessor_result' = IF CurrentShardInfo.is_some
                          THEN Returned("get_curr_shard", CurrentShardInfo.num)
                          ELSE ExpectPanicked("get_curr_shard")
    /\ UNCHANGED <<block_number, scale_out_observe_blocks, CurrentShardInfo,
                   CurrentScaleOutPhase, digest, block_pc, dispatch_result, phase_history>>
    /\ UNCHANGED outside_sharding

\* fn get_shard_count() -> ShardNum: current_shard_info().expect(..).count
get_shard_count ==
    /\ block_pc \in {"initialized", "applied"}
    /\ accessor_result' = IF CurrentShardInfo.is_some
                          THEN Returned("get_shard_count", CurrentShardInfo.count)
                          ELSE ExpectPanicked("get_shard_count")
    /\ UNCHANGED <<block_number, scale_out_observe_blocks, CurrentShardInfo,
                   CurrentScaleOutPhase, digest, block_pc, dispatch_result, phase_history>>
    /\ UNCHANGED outside_sharding

ShardingInit ==
    /\ block_number = 0
    /\ scale_out_observe_blocks \in 0..MaxObserveBlocks
    /\ CurrentShardInfo = NoShardInfo
    /\ CurrentScaleOutPhase = NoPhase
    /\ digest = <<>>
    /\ block_pc = "finalized"
    /\ dispatch_result = "Ok"
    /\ phase_history = <<>>
    /\ accessor_result = NotCalled

ShardingNext ==
    \/ initialize_block
    \/ \E origin \in Origins, info \in ShardInfos : set_shard_info(origin, info)
    \/ on_finalize
    \/ get_genesis_shard_count
    \/ get_curr_shard
    \/ get_shard_count

\* the sharding variables of a specification that does not exercise them
ShardingParked ==
    /\ block_number = 0
    /\ scale_out_observe_blocks = 0
    /\ CurrentShardInfo = NoShardInfo
    /\ CurrentScaleOutPhase = NoPhase
    /\ digest = <<>>
    /\ block_pc = "finalized"
    /\ dispatch_result = "Ok"
    /\ phase_history = <<>>
    /\ accessor_result = NotCalled

(***************************************************************************)
(* client/consensus/pow: DefaultJobManager (job.rs)                        *)
(***************************************************************************)

NoJob == [is_some |-> FALSE]
NoResult == [returned |-> FALSE]
NoVerdict == [is_some |-> FALSE]
Ok(v) == [returned |-> TRUE, ok |-> TRUE, value |-> v]
Err(e) == [returned |-> TRUE, ok |-> FALSE, error |-> e]

\* enum WorkProof, as far as job.rs and worker.rs build it
WorkProofUnknown == [kind |-> "Unknown"]
WorkProofNonce(n) == [kind |-> "Nonce", nonce |-> n]
Nonces == 0..MaxNonce

\* the candidate blocks the proposer may return: a header (its content, and the shard
\* count its digest declares) and a body
ProposedHeaders == [id : {1}, shard_count : {2, 4}, digest : {<<>>}]
ProposedBlocks == [header : ProposedHeaders, body : {"body"}]
PowTargets == {2, 6}

\* struct PowSeal { authority_id, pow_target, timestamp, work_proof, relay_proof }
PowSeal(authority_id, pow_target, timestamp, work_proof, relay_proof) ==
    [authority_id |-> authority_id, pow_target |-> pow_target, timestamp |-> timestamp,
     work_proof |-> work_proof, relay_proof |-> relay_proof]

\* CompatibleDigestItem::pow_seal: DigestItem::Consensus(YEE_POW_ENGINE_ID, seal.encode())
pow_seal(seal) == [item |-> "Consensus", engine |-> "Yee!", seal |-> seal]

\* Header::hash(): a collision-free name of the header's content with its digest
header_hash(header) == [hash_of |-> header]

\* the numeric value of the proof hash of a header sealed with a nonce
proof_hash_value(header, seal) ==
    (seal.work_proof.nonce * 3 + header.id) % HashSpace

\* crate::pow::check_work_proof(&header, &seal) -> Result<(post_digest, hash), Error>
check_work_proof(header, seal) ==
    IF seal.work_proof.kind = "Unknown"
    THEN Err("InvalidWorkProof")
    ELSE IF proof_hash_value(header, seal) <= seal.pow_target
         THEN Ok([post_digest |-> pow_seal(seal),
                  hash |-> header_hash([header EXCEPT !.digest = Append(@, pow_seal(seal))])])
         ELSE Err("WorkProofNotMeetTarget")

\* crate::verifier::check_scale(&header, shard_extra) -> Result<(), Error>
check_scale(header, extra) ==
    IF header.shard_count = extra.shard_count
    THEN Ok("unit")
    ELSE Err("ScaleMismatch")

\* mutant: the seal is pushed onto the job's own header, and the hash taken twice
build_job_seals_header(block, authority_id, pow_target, timestamp) ==
    LET pow_seal_value == PowSeal(authority_id, pow_target, timestamp,
                                  WorkProofUnknown, "relay_proof")
        header == [block.header EXCEPT !.digest = Append(@, pow_seal(pow_seal_value))]
    IN  [is_some |-> TRUE,
         hash |-> header_hash(header),
         header |-> header,
         body |-> block.body,
         digest_item |-> pow_seal_value,
         xts_proof |-> "proof"]

\* the closure build_job of get_job: the job made from the proposed block
build_job(block, authority_id, pow_target, timestamp) ==
    LET header == block.header
        pow_seal_value == PowSeal(authority_id, pow_target, timestamp,
                                  WorkProofUnknown, "relay_proof")
        header_with_pow_seal == [header EXCEPT !.digest = Append(@, pow_seal(pow_seal_value))]
    IN  [is_some |-> TRUE,
         hash |-> header_hash(header_with_pow_seal),
         header |-> header,
         body |-> block.body,
         digest_item |-> pow_seal_value,
         xts_proof |-> "proof"]

\* what the collaborators of one get_job call answer
GetJobEnvs == [best_chain : BOOLEAN, inherent_data : BOOLEAN, proposer : BOOLEAN,
               pow_target : BOOLEAN]

\* mutant: the proposer is initialised and called before the inherent data is made
get_job_proposes_first(env, block, pow_target) ==
    /\ sj_pc = "idle"
    /\ IF ~env.best_chain
       THEN /\ gj_result' = Err("BestChain")
            /\ proposer_calls' = 0
            /\ UNCHANGED held_job
       ELSE IF ~env.proposer
       THEN /\ gj_result' = Err("Proposer")
            /\ proposer_calls' = 1
            /\ UNCHANGED held_job
       ELSE IF ~env.inherent_data
       THEN /\ gj_result' = Err("InherentData")
            /\ proposer_calls' = 1
            /\ UNCHANGED held_job
       ELSE IF ~env.pow_target
       THEN /\ gj_result' = Err("PowTarget")
            /\ proposer_calls' = 1
            /\ UNCHANGED held_job
       ELSE /\ gj_result' = Ok("job")
            /\ proposer_calls' = 1
            /\ held_job' = build_job(block, "authority", pow_target, "now")
    /\ IF held_job' = held_job
       THEN UNCHANGED <<sj_prev, sj_last>>
       ELSE sj_prev' = NoVerdict /\ sj_last' = NoVerdict
    /\ UNCHANGED <<shard_extra, sj_pc, sj_job, sj_calls, sj_result, imported>>
    /\ UNCHANGED chain_head
    /\ UNCHANGED outside_job

\* fn get_job(&mut self): best_chain, create_inherent_data, proposer, build_job
get_job(env, block, pow_target) ==
    /\ sj_pc = "idle"
    /\ IF ~env.best_chain
       THEN /\ gj_result' = Err("BestChain")
            /\ proposer_calls' = 0
            /\ UNCHANGED held_job
       ELSE IF ~env.inherent_data
       THEN /\ gj_result' = Err("InherentData")
            /\ proposer_calls' = 0
            /\ UNCHANGED held_job
       ELSE IF ~env.proposer
       THEN /\ gj_result' = Err("Proposer")
            /\ proposer_calls' = 1
            /\ UNCHANGED held_job
       ELSE IF ~env.pow_target
       THEN /\ gj_result' = Err("PowTarget")
            /\ proposer_calls' = 1
            /\ UNCHANGED held_job
       ELSE /\ gj_result' = Ok("job")
            /\ proposer_calls' = 1
            /\ held_job' = build_job(block, "authority", pow_target, "now")
    /\ IF held_job' = held_job
       THEN UNCHANGED <<sj_prev, sj_last>>
       ELSE sj_prev' = NoVerdict /\ sj_last' = NoVerdict
    /\ UNCHANGED <<shard_extra, sj_pc, sj_job, sj_calls, sj_result, imported>>
    /\ UNCHANGED chain_head
    /\ UNCHANGED outside_job

\* a miner puts a nonce into the seal of the job it holds (seal.work_proof = proof)
set_work_proof(n) ==
    /\ sj_pc = "idle"
    /\ held_job.is_some
    /\ held_job' = [held_job EXCEPT !.digest_item.work_proof = WorkProofNonce(n)]
    /\ IF held_job' = held_job
       THEN UNCHANGED <<sj_prev, sj_last>>
       ELSE sj_prev' = NoVerdict /\ sj_last' = NoVerdict
    /\ UNCHANGED <<shard_extra, gj_result, proposer_calls,
                   sj_pc, sj_job, sj_calls, sj_result, imported>>
    /\ UNCHANGED chain_head
    /\ UNCHANGED outside_job

\* fn submit_job(&self, job): the call is made with the held job
submit_job_call ==
    /\ sj_pc = "idle"
    /\ held_job.is_some
    /\ sj_job' = held_job
    /\ sj_calls' = <<>>
    /\ sj_result' = NoResult
    /\ sj_pc' = "check_work_proof"
    /\ UNCHANGED <<shard_extra, held_job, gj_result, proposer_calls, imported>>
    /\ UNCHANGED <<chain_head, sj_prev, sj_last>>
    /\ UNCHANGED outside_job

\* crate::pow::calc_pow_target(client, &header, timestamp, &context): the target the
\* chain asks for now
calc_pow_target(head) == head.pow_target

\* mutant: the seal is given the target of the present chain head before it is checked
seal_checked_restamped(job, head) ==
    [job.digest_item EXCEPT !.pow_target = calc_pow_target(head)]

\* the seal submit_job checks: &job.digest_item
seal_checked(job, head) == job.digest_item

\* the verdict of the running submit_job's verification, with the chain head it was
\* reached under
record_verdict(verified) ==
    /\ sj_prev' = sj_last
    /\ sj_last' = [is_some |-> TRUE, job |-> sj_job, head |-> chain_head,
                   pow_target |-> seal_checked(sj_job, chain_head).pow_target,
                   verified |-> verified]

\* mutant: the result of check_work_proof is not propagated
after_check_work_proof_ignored(res) == "check_scale"

\* check_work_proof(..)? : an error returns from check_job
after_check_work_proof(res) == IF res.ok THEN "check_scale" ELSE "returned"

\* let (post_digest, hash) = check_work_proof(&job.header, &job.digest_item)?;
submit_check_work_proof ==
    /\ sj_pc = "check_work_proof"
    /\ LET res == check_work_proof(sj_job.header, seal_checked(sj_job, chain_head)) IN
        /\ sj_calls' = Append(sj_calls, "check_work_proof")
        /\ sj_pc' = after_check_work_proof(res)
        /\ sj_result' = IF sj_pc' = "returned" THEN res ELSE sj_result
        /\ IF sj_pc' = "returned"
           THEN record_verdict(FALSE)
           ELSE UNCHANGED <<sj_prev, sj_last>>
    /\ UNCHANGED <<shard_extra, held_job, gj_result, proposer_calls, sj_job, imported>>
    /\ UNCHANGED chain_head
    /\ UNCHANGED outside_job

\* mutant: the result of check_scale is not propagated
after_check_scale_ignored(res) == "import_block"

\* check_scale(..)? : an error returns from check_job
after_check_scale(res) == IF res.ok THEN "import_block" ELSE "returned"

\* check_scale::<B, AccountId>(&job.header, self.shard_extra.clone())?;
submit_check_scale ==
    /\ sj_pc = "check_scale"
    /\ LET res == check_scale(sj_job.header, shard_extra) IN
        /\ sj_calls' = Append(sj_calls, "check_scale")
        /\ sj_pc' = after_check_scale(res)
        /\ sj_result' = IF sj_pc' = "returned" THEN res ELSE sj_result
        /\ record_verdict(sj_pc' = "import_block")
    /\ UNCHANGED <<shard_extra, held_job, gj_result, proposer_calls, sj_job, imported>>
    /\ UNCHANGED chain_head
    /\ UNCHANGED outside_job

\* BlockImportParams::new(BlockOrigin::Own, job.header) with post digest, body, fork choice
import_params(job, post_digest) ==
    [origin |-> "Own", header |-> job.header, post_digests |-> <<post_digest>>,
     body |-> job.body, storage_changes |-> "None", fork_choice |-> "LongestChain"]

\* block_import.import_block(import_block, Default::default())?; Ok(hash)
submit_import_block(import_ok) ==
    /\ sj_pc = "import_block"
    /\ LET seal == pow_seal(sj_job.digest_item)
           sealed == [sj_job.header EXCEPT !.digest = Append(@, seal)] IN
        /\ sj_calls' = Append(sj_calls, "import_block")
        /\ IF import_ok
           THEN /\ imported' = imported \cup {import_params(sj_job, seal)}
                /\ sj_result' = Ok(header_hash(sealed))
           ELSE /\ imported' = imported
                /\ sj_result' = Err("Import")
    /\ sj_pc' = "returned"
    /\ UNCHANGED <<shard_extra, held_job, gj_result, proposer_calls, sj_job>>
    /\ UNCHANGED <<chain_head, sj_prev, sj_last>>
    /\ UNCHANGED outside_job

\* the future returned by submit_job has resolved; the manager takes the next call
submit_job_return ==
    /\ sj_pc = "returned"
    /\ sj_pc' = "idle"
    /\ UNCHANGED <<shard_extra, held_job, gj_result, proposer_calls,
                   sj_job, sj_calls, sj_result, imported>>
    /\ UNCHANGED <<chain_head, sj_prev, sj_last>>
    /\ UNCHANGED outside_job

\* a block is imported from elsewhere: the best chain moves, and with it the target
chain_head_changes(pow_target) ==
    /\ chain_head.pow_target # pow_target
    /\ chain_head' = [chain_head EXCEPT !.pow_target = pow_target]
    /\ UNCHANGED <<shard_extra, held_job, gj_result, proposer_calls,
                   sj_pc, sj_job, sj_calls, sj_result, imported, sj_prev, sj_last>>
    /\ UNCHANGED outside_job

JobInit ==
    /\ shard_extra \in [shard_num : {0}, shard_count : {2}]
    /\ held_job = NoJob
    /\ gj_result = NoResult
    /\ proposer_calls = 0
    /\ sj_pc = "idle"
    /\ sj_job = NoJob
    /\ sj_calls = <<>>
    /\ sj_result = NoResult
    /\ imported = {}
    /\ chain_head = [pow_target |-> 2]
    /\ sj_prev = NoVerdict
    /\ sj_last = NoVerdict

JobParked == JobInit

JobNext ==
    \/ \E env \in GetJobEnvs, block \in ProposedBlocks :
          get_job(env, block, calc_pow_target(chain_head))
    \/ \E t \in PowTargets : chain_head_changes(t)
    \/ \E n \in Nonces : set_work_proof(n)
    \/ submit_job_call
    \/ submit_check_work_proof
    \/ submit_check_scale
    \/ \E import_ok \in BOOLEAN : submit_import_block(import_ok)
    \/ submit_job_return


\* whether a job passes the two checks of submit_job, from the job and the shard data alone
job_verifies(job, extra) ==
    /\ check_work_proof(job.header, job.digest_item).ok
    /\ check_scale(job.header, extra).ok

\* C19: the verdict of submit_job's verification depends only on the job and the
\* configured shard data, not on the chain head at submission time: two submissions of
\* the same job under different chain heads get the same verdict, and the pow_target
\* checked is the one stamped into the seal when the job was built.
C19_VerdictIndependentOfChainHead ==
    /\ (sj_prev.is_some /\ sj_last.is_some /\ sj_prev.job = sj_last.job) =>
           sj_prev.verified = sj_last.verified
    /\ sj_last.is_some =>
           /\ sj_last.pow_target = sj_last.job.digest_item.pow_target
           /\ sj_last.verified = job_verifies(sj_last.job, shard_extra)

\* whether a header carries a PoW seal digest item
has_pow_seal(header) ==
    \E i \in 1..Len(header.digest) :
        header.digest[i].item = "Consensus" /\ header.digest[i].engine = "Yee!"

\* C24: every job returned by get_job has digest_item.work_proof = WorkProof::Unknown,
\* carries the proposed header with no PoW seal digest appended, and has as hash the
\* hash of that header with the digest item of the Unknown seal appended.
C24_JobCarriesUnsealedHeader ==
    [][\A env \in GetJobEnvs, block \in ProposedBlocks :
         (get_job(env, block, calc_pow_target(chain_head)) /\ gj_result'.ok) =>
             /\ held_job'.is_some
             /\ held_job'.digest_item.work_proof = WorkProofUnknown
             /\ held_job'.digest_item.pow_target = calc_pow_target(chain_head)
             /\ held_job'.header = block.header
             /\ held_job'.body = block.body
             /\ ~has_pow_seal(held_job'.header)
             /\ held_job'.hash =
                   header_hash([block.header EXCEPT
                                  !.digest = Append(@, pow_seal(held_job'.digest_item))])
             /\ held_job'.hash # header_hash(held_job'.header)]_vars

\* C24 witness: get_job has returned a job in place of one a miner had put a nonce in
C24_Witness ==
    /\ gj_result = Ok("job")
    /\ held_job.is_some
    /\ held_job.digest_item.work_proof = WorkProofUnknown
    /\ ~has_pow_seal(held_job.header)
    /\ sj_job.is_some
    /\ sj_job.digest_item.work_proof # WorkProofUnknown

\* C25: if best_chain() or create_inherent_data() fails, get_job returns that error
\* without initialising or calling the proposer; if the proposer fails get_job returns
\* its error; in every case one get_job call invokes the proposer at most once.
C25_GetJobErrors ==
    [][\A env \in GetJobEnvs, block \in ProposedBlocks :
         get_job(env, block, calc_pow_target(chain_head)) =>
             /\ proposer_calls' <= 1
             /\ ~env.best_chain =>
                   gj_result' = Err("BestChain") /\ proposer_calls' = 0
             /\ (env.best_chain /\ ~env.inherent_data) =>
                   gj_result' = Err("InherentData") /\ proposer_calls' = 0
             /\ (env.best_chain /\ env.inherent_data /\ ~env.proposer) =>
                   gj_result' = Err("Proposer") /\ proposer_calls' = 1
             /\ ~gj_result'.ok => held_job' = held_job]_vars

\* C25 witness: a get_job call has failed on its inherent data, the proposer not
\* called, while the caller still holds the job of an earlier call
C25_Witness ==
    /\ gj_result = Err("InherentData")
    /\ proposer_calls = 0
    /\ held_job.is_some

\* C19 witness: the same job was verified twice under different chain heads and
\* accepted, the second time under a head whose target the proof does not meet
C19_Witness ==
    /\ sj_prev.is_some /\ sj_last.is_some
    /\ sj_prev.job = sj_last.job
    /\ sj_prev.head # sj_last.head
    /\ sj_last.verified
    /\ proof_hash_value(sj_last.job.header, sj_last.job.digest_item)
           > calc_pow_target(sj_last.head)

(***************************************************************************)
(* client/consensus/pow: start_pow (lib.rs)                                *)
(***************************************************************************)

Callers == 1..NumCallers
NoManager == 0
Unlocked == 0

\* the manager built by a call is named after the call
inner_job_manager(c) == c

\* let inner_job_manager = Arc::new(DefaultJobManager::new(..))
start_pow_new(c) ==
    /\ sp_pc[c] = "idle"
    /\ sp_pc' = [sp_pc EXCEPT ![c] = "constructed"]
    /\ UNCHANGED <<job_manager, reg_lock, workers, registered_by>>
    /\ UNCHANGED outside_startpow

\* let mut reg_lock = job_manager.write(): waits until no one holds the lock
start_pow_write_lock(c) ==
    /\ sp_pc[c] = "constructed"
    /\ reg_lock = Unlocked
    /\ reg_lock' = c
    /\ sp_pc' = [sp_pc EXCEPT ![c] = "locked"]
    /\ UNCHANGED <<job_manager, workers, registered_by>>
    /\ UNCHANGED outside_startpow

\* mutant: a second registration replaces the registered manager
register_replacing(slot, c) == [panic |-> FALSE, slot |-> inner_job_manager(c)]

\* match *reg_lock { Some(_) => panic!(..), None => *reg_lock = Some(inner_job_manager) }
register(slot, c) ==
    IF slot # NoManager
    THEN [panic |-> TRUE, slot |-> slot]
    ELSE [panic |-> FALSE, slot |-> inner_job_manager(c)]

\* the match on the slot; a panic unwinds and drops the write guard
start_pow_register(c) ==
    /\ sp_pc[c] = "locked"
    /\ LET r == register(job_manager, c) IN
        /\ job_manager' = r.slot
        /\ registered_by' = IF r.panic THEN registered_by ELSE Append(registered_by, c)
        /\ sp_pc' = [sp_pc EXCEPT ![c] = IF r.panic THEN "panicked" ELSE "registered"]
        /\ reg_lock' = IF r.panic THEN Unlocked ELSE reg_lock
    /\ UNCHANGED workers
    /\ UNCHANGED outside_startpow

\* worker::start_worker(worker, ..): start_pow returns its result and drops the guard
start_pow_start_worker(c, on_start_ok) ==
    /\ sp_pc[c] = "registered"
    /\ workers' = IF on_start_ok THEN workers \cup {c} ELSE workers
    /\ sp_pc' = [sp_pc EXCEPT ![c] = IF on_start_ok THEN "returned_ok" ELSE "returned_err"]
    /\ reg_lock' = Unlocked
    /\ UNCHANGED <<job_manager, registered_by>>
    /\ UNCHANGED outside_startpow

StartPowInit ==
    /\ job_manager = NoManager
    /\ reg_lock = Unlocked
    /\ sp_pc = [c \in Callers |-> "idle"]
    /\ workers = {}
    /\ registered_by = <<>>

StartPowParked ==
    /\ job_manager = NoManager
    /\ reg_lock = Unlocked
    /\ sp_pc = <<>>
    /\ workers = {}
    /\ registered_by = <<>>

StartPowNext ==
    \/ \E c \in Callers : start_pow_new(c)
    \/ \E c \in Callers : start_pow_write_lock(c)
    \/ \E c \in Callers : start_pow_register(c)
    \/ \E c \in Callers, on_start_ok \in BOOLEAN : start_pow_start_worker(c, on_start_ok)


(***************************************************************************)
(* Claims about start_pow                                                  *)
(***************************************************************************)

\* C7: across any interleaving of start_pow calls sharing one job_manager slot, at
\* most one call ever stores its manager: the call that finds None sets Some(manager);
\* every other call finds Some and panics, without replacing the registered manager
\* and without starting a worker.
C7_RegisteredOnce ==
    /\ Len(registered_by) <= 1
    /\ job_manager = (IF registered_by = <<>> THEN NoManager
                      ELSE inner_job_manager(registered_by[1]))
    /\ workers \subseteq {c \in Callers : job_manager = inner_job_manager(c)}
    /\ \A c \in Callers :
          /\ (sp_pc[c] = "panicked" =>
                /\ job_manager # NoManager
                /\ job_manager # inner_job_manager(c)
                /\ c \notin workers)
          /\ (sp_pc[c] \in {"registered", "returned_ok", "returned_err"} =>
                job_manager = inner_job_manager(c))

\* C7 witness: one call has registered and started its worker, a second has panicked
C7_Witness ==
    \E c1, c2 \in Callers :
        /\ c1 # c2
        /\ sp_pc[c1] = "returned_ok"
        /\ sp_pc[c2] = "panicked"
        /\ job_manager = inner_job_manager(c1)
        /\ workers = {c1}

(***************************************************************************)
(* client/pow: Sha3Algorithm (pow.rs)                                      *)
(***************************************************************************)

\* H256 and U256 values are words of the model; a raw seal is the sequence of the
\* encoded words of a Seal
HashValues == 0..(HashSpace - 1)
PreHashes == {0, 1}
Difficulties == {1, 4}
Rounds == 0..MaxRound

NoSeal == [is_some |-> FALSE]
SomeSeal(raw) == [is_some |-> TRUE, value |-> raw]

\* Sha3_256::digest(&calculation.encode()) with Calculation { difficulty, pre_hash, nonce }
sha3_256(difficulty, pre_hash, nonce) ==
    (difficulty * 5 + pre_hash * 3 + nonce * nonce + nonce + 3) % HashSpace

\* the difficulty predicate of the design: the hash value times the difficulty does
\* not exceed the largest hash value
meets_difficulty(hash, difficulty) == hash * difficulty <= HashSpace - 1

\* fn is_valid_hash(_hash, _difficulty) -> bool { true }
is_valid_hash(hash, difficulty) == TRUE

\* Compute::compute(self) -> Seal
compute(difficulty, pre_hash, nonce) ==
    [nonce |-> nonce, difficulty |-> difficulty,
     work |-> sha3_256(difficulty, pre_hash, nonce)]

\* mutant: the fields of a Seal are written in another order than they are read
seal_encode_swapped(seal) == <<seal.difficulty, seal.nonce, seal.work>>

\* #[derive(Encode)] struct Seal { difficulty, work, nonce }
seal_encode(seal) == <<seal.difficulty, seal.work, seal.nonce>>

\* #[derive(Decode)] struct Seal: fails on a short input, ignores what follows
seal_decode(raw) ==
    IF Len(raw) < 3
    THEN Err("Decode")
    ELSE Ok([difficulty |-> raw[1], work |-> raw[2], nonce |-> raw[3]])

\* mutant: only the work of the recomputed seal is compared
verify_work_only(pre_hash, raw, difficulty) ==
    LET decoded == seal_decode(raw) IN
    IF ~decoded.ok
    THEN Ok(FALSE)
    ELSE IF compute(difficulty, pre_hash, decoded.value.nonce).work # decoded.value.work
    THEN Ok(FALSE)
    ELSE Ok(TRUE)

\* fn verify(&self, _parent, pre_hash, seal, difficulty) -> Result<bool, Error<B>>
verify(pre_hash, raw, difficulty) ==
    LET decoded == seal_decode(raw) IN
    IF ~decoded.ok
    THEN Ok(FALSE)
    ELSE IF ~is_valid_hash(decoded.value.work, difficulty)
    THEN Ok(FALSE)
    ELSE IF compute(difficulty, pre_hash, decoded.value.nonce) # decoded.value
    THEN Ok(FALSE)
    ELSE Ok(TRUE)

\* the raw seals verify is called with: encoded seals, whole or cut short
RawSeals ==
    LET seals == [difficulty : Difficulties, work : HashValues, nonce : Nonces] IN
    {seal_encode(x) : x \in seals} \cup {SubSeq(seal_encode(x), 1, 2) : x \in seals}

\* fn mine(&self, parent, pre_hash, difficulty, round): the call
mine_call(pre_hash, difficulty, round) ==
    /\ mn_pc = "idle"
    /\ mn_args' = [pre_hash |-> pre_hash, difficulty |-> difficulty, round |-> round]
    /\ mn_attempts' = 0
    /\ mn_result' = NoSeal
    /\ mn_pc' = "loop"
    /\ UNCHANGED <<vf_args, vf_result>>
    /\ UNCHANGED outside_pow

\* SmallRng::from_rng fails: mine returns Err(Error::Environment) before the loop
mine_rng_failed(pre_hash, difficulty, round) ==
    /\ mn_pc = "idle"
    /\ mn_args' = [pre_hash |-> pre_hash, difficulty |-> difficulty, round |-> round]
    /\ mn_attempts' = 0
    /\ mn_result' = [is_some |-> FALSE, error |-> "Environment"]
    /\ UNCHANGED <<mn_pc, vf_args, vf_result>>
    /\ UNCHANGED outside_pow

\* one iteration of for _ in 0..round, with the nonce drawn from the generator
mine_attempt(nonce) ==
    /\ mn_pc = "loop"
    /\ mn_attempts < mn_args.round
    /\ LET seal == compute(mn_args.difficulty, mn_args.pre_hash, nonce) IN
       IF is_valid_hash(seal.work, mn_args.difficulty)
       THEN /\ mn_result' = SomeSeal(seal_encode(seal))
            /\ mn_pc' = "idle"
       ELSE /\ mn_result' = mn_result
            /\ mn_pc' = mn_pc
    /\ mn_attempts' = mn_attempts + 1
    /\ UNCHANGED <<mn_args, vf_args, vf_result>>
    /\ UNCHANGED outside_pow

\* the loop has used its round iterations: Ok(None)
mine_exhausted ==
    /\ mn_pc = "loop"
    /\ mn_attempts = mn_args.round
    /\ mn_result' = NoSeal
    /\ mn_pc' = "idle"
    /\ UNCHANGED <<mn_args, mn_attempts, vf_args, vf_result>>
    /\ UNCHANGED outside_pow

\* a call of verify
verify_call(pre_hash, raw, difficulty) ==
    /\ mn_pc = "idle"
    /\ vf_args' = [called |-> TRUE, pre_hash |-> pre_hash, seal |-> raw,
                   difficulty |-> difficulty]
    /\ vf_result' = verify(pre_hash, raw, difficulty)
    /\ UNCHANGED <<mn_pc, mn_args, mn_attempts, mn_result>>
    /\ UNCHANGED outside_pow

\* verify is given the seal mine has just returned, or any raw seal
verify_mined ==
    /\ mn_result.is_some
    /\ verify_call(mn_args.pre_hash, mn_result.value, mn_args.difficulty)

PowInit ==
    /\ mn_pc = "idle"
    /\ mn_args = [pre_hash |-> 0, difficulty |-> 1, round |-> 0]
    /\ mn_attempts = 0
    /\ mn_result = NoSeal
    /\ vf_args = [called |-> FALSE]
    /\ vf_result = NoResult

PowParked == PowInit

PowNext ==
    \/ \E p \in PreHashes, d \in Difficulties, r \in Rounds : mine_call(p, d, r)
    \/ \E p \in PreHashes, d \in Difficulties, r \in Rounds : mine_rng_failed(p, d, r)
    \/ \E n \in Nonces : mine_attempt(n)
    \/ mine_exhausted
    \/ verify_mined
    \/ \E p \in PreHashes, raw \in RawSeals, d \in Difficulties : verify_call(p, raw, d)

(***************************************************************************)
(* Claims about Sha3Algorithm                                              *)
(***************************************************************************)

\* C8: whenever mine returns Some(seal), verify(pre_hash, seal, difficulty) with the
\* same pre_hash and difficulty returns true.
C8_MinedSealVerifies ==
    /\ (mn_pc = "idle" /\ mn_result.is_some) =>
          verify(mn_args.pre_hash, mn_result.value, mn_args.difficulty) = Ok(TRUE)
    /\ (/\ mn_pc = "idle"
        /\ mn_result.is_some
        /\ vf_args.called
        /\ vf_args.pre_hash = mn_args.pre_hash
        /\ vf_args.difficulty = mn_args.difficulty
        /\ vf_args.seal = mn_result.value) => vf_result = Ok(TRUE)

\* C8 witness: mine has returned a seal and verify has accepted it
C8_Witness ==
    /\ mn_pc = "idle"
    /\ mn_result.is_some
    /\ mn_attempts >= 1
    /\ vf_args.called
    /\ vf_args.pre_hash = mn_args.pre_hash
    /\ vf_args.difficulty = mn_args.difficulty
    /\ vf_args.seal = mn_result.value
    /\ vf_result = Ok(TRUE)

\* C9: verify returns false for every seal whose recomputed work hash does not satisfy
\* the difficulty predicate, and mine never returns such a seal.
C9_Claim_RejectsAboveThreshold ==
    /\ (/\ vf_args.called
        /\ seal_decode(vf_args.seal).ok
        /\ ~meets_difficulty(sha3_256(vf_args.difficulty, vf_args.pre_hash,
                                      seal_decode(vf_args.seal).value.nonce),
                             vf_args.difficulty))
       => vf_result = Ok(FALSE)
    /\ (mn_pc = "idle" /\ mn_result.is_some) =>
          meets_difficulty(seal_decode(mn_result.value).value.work, mn_args.difficulty)

\* C31: when the seal bytes given to verify do not decode as a Seal, verify returns
\* (it does not panic) and what it returns is a decode error, which is not the
\* verification result false.
C31_Claim_DecodeErrorReported ==
    (vf_args.called /\ ~seal_decode(vf_args.seal).ok) =>
        /\ vf_result.returned
        /\ ~vf_result.ok
        /\ vf_result # Ok(FALSE)

\* the Seal verify was last called with, when it decodes
VerifiedSeal == seal_decode(vf_args.seal).value

\* C32: verify returns true only if the seal's difficulty is the difficulty argument
\* and its work is the hash recomputed from (difficulty, pre_hash, seal.nonce); a seal
\* that differs in work or in recorded difficulty yields false; the result is a
\* function of (pre_hash, seal, difficulty).
C32_VerifyRecomputes ==
    vf_args.called =>
        /\ vf_result = Ok(TRUE) =>
               /\ seal_decode(vf_args.seal).ok
               /\ VerifiedSeal.difficulty = vf_args.difficulty
               /\ VerifiedSeal.work = sha3_256(vf_args.difficulty, vf_args.pre_hash,
                                              VerifiedSeal.nonce)
        /\ (/\ seal_decode(vf_args.seal).ok
            /\ \/ VerifiedSeal.difficulty # vf_args.difficulty
               \/ VerifiedSeal.work # sha3_256(vf_args.difficulty, vf_args.pre_hash,
                                               VerifiedSeal.nonce)) =>
               vf_result = Ok(FALSE)
        /\ vf_result = verify(vf_args.pre_hash, vf_args.seal, vf_args.difficulty)

\* C32 witness: verify has refused a seal whose work is the recomputed hash but whose
\* recorded difficulty is not the difficulty asked for
C32_Witness ==
    /\ vf_args.called
    /\ seal_decode(vf_args.seal).ok
    /\ VerifiedSeal.difficulty # vf_args.difficulty
    /\ VerifiedSeal.work = sha3_256(vf_args.difficulty, vf_args.pre_hash, VerifiedSeal.nonce)
    /\ vf_result = Ok(FALSE)

(***************************************************************************)
(* Claims about DefaultJobManager::submit_job                              *)
(***************************************************************************)

Called(name) == \E i \in 1..Len(sj_calls) : sj_calls[i] = name

\* C5: submit_job calls import_block only after check_work_proof and then check_scale
\* have both succeeded on the job, in that order; if either check fails submit_job
\* returns an error and makes no import_block call.
C5_ImportOnlyAfterBothChecks ==
    sj_job.is_some =>
        LET work == check_work_proof(sj_job.header, sj_job.digest_item)
            scale == check_scale(sj_job.header, shard_extra) IN
        /\ (Called("check_scale") =>
              /\ SubSeq(sj_calls, 1, 2) = <<"check_work_proof", "check_scale">>
              /\ work.ok)
        /\ (Called("import_block") =>
              /\ sj_calls = <<"check_work_proof", "check_scale", "import_block">>
              /\ work.ok
              /\ scale.ok)
        /\ (sj_pc = "returned" /\ (~work.ok \/ ~scale.ok) =>
              /\ sj_result.returned
              /\ ~sj_result.ok
              /\ sj_result.error \in {"InvalidWorkProof", "WorkProofNotMeetTarget",
                                      "ScaleMismatch"}
              /\ ~Called("import_block"))

\* C5 witness: a submission has passed both checks and its block has been imported
C5_Witness ==
    /\ sj_pc = "returned"
    /\ sj_calls = <<"check_work_proof", "check_scale", "import_block">>
    /\ sj_result.ok
    /\ imported # {}

DocumentedTransitions ==
    { <<"None", "Started">>, <<"Started", "NativeReady">>, <<"NativeReady", "Ready">>,
      <<"Ready", "Commiting">>, <<"Commiting", "Committed">>, <<"Committed", "None">> }

ObservingTags == {"Started", "NativeReady", "Ready"}

SuccessorTag(t) ==
    CASE t = "Started" -> "NativeReady"
      [] t = "NativeReady" -> "Ready"
      [] t = "Ready" -> "Commiting"

\* a step that is the block's set_shard_info inherent
IsInherentStep == block_pc = "initialized" /\ block_pc' = "applied"

\* the block's inherent has been applied in this state
InherentApplied == block_pc \in {"applied", "finalized"}

\* C1: every change of CurrentScaleOutPhase is one of the six documented
\* transitions None->Started->NativeReady->Ready->Commiting->Committed->None;
\* no phase is skipped and Started is entered only from None.
C1_PhaseOrder ==
    [][CurrentScaleOutPhase' # CurrentScaleOutPhase =>
         <<CurrentScaleOutPhase.tag, CurrentScaleOutPhase'.tag>> \in DocumentedTransitions]_vars

\* C1 witness: a whole scale-out has run and a second Started has been entered from None
C1_Witness ==
    /\ Len(phase_history) >= 7
    /\ phase_history[6].phase = NoPhase
    /\ phase_history[7].phase.tag = "Started"

\* C2: while the stored phase is Started, NativeReady or Ready with observe_util = U,
\* the phase is changed only by the set_shard_info call made at block number U, which
\* stores the next phase; a call at any other block number leaves it unchanged.
C2_AdvanceOnlyAtObserveUtil ==
    [][CurrentScaleOutPhase.tag \in ObservingTags =>
         /\ (CurrentScaleOutPhase' # CurrentScaleOutPhase =>
               /\ IsInherentStep
               /\ block_number = CurrentScaleOutPhase.observe_util
               /\ CurrentScaleOutPhase'.tag = SuccessorTag(CurrentScaleOutPhase.tag))
         /\ (IsInherentStep /\ block_number = CurrentScaleOutPhase.observe_util =>
               CurrentScaleOutPhase' # CurrentScaleOutPhase)]_vars

\* C2 witness: NativeReady was entered at its predecessor's observe_util, and a later
\* call at a block before its own observe_util has left it as it was
C2_Witness ==
    /\ CurrentScaleOutPhase.tag = "NativeReady"
    /\ block_pc = "applied"
    /\ phase_history[Len(phase_history)].at < block_number
    /\ block_number < CurrentScaleOutPhase.observe_util
    /\ phase_history[Len(phase_history)].at = phase_history[Len(phase_history) - 1].phase.observe_util

\* C3 as stated: once Commiting is stored while processing block H, Committed and None
\* are both stored while processing that same block H.
C3_Original_SameBlock ==
    \A i \in 1..Len(phase_history) :
        (/\ phase_history[i].phase.tag = "Commiting"
         /\ (block_number > phase_history[i].at \/ block_pc = "finalized"))
        => /\ i + 2 <= Len(phase_history)
           /\ phase_history[i + 1].phase.tag = "Committed"
           /\ phase_history[i + 1].at = phase_history[i].at
           /\ phase_history[i + 2].phase = NoPhase
           /\ phase_history[i + 2].at = phase_history[i].at

\* C3 amended: once Commiting is stored while processing block H, it is still stored
\* when block H ends; the set_shard_info call of block H+1 stores Committed and the
\* call of block H+2 stores None, each unconditionally: the pair spans exactly the
\* two following blocks.
C3_CommitPairTakesTwoBlocks ==
    \A i \in 1..Len(phase_history) :
        phase_history[i].phase.tag = "Commiting" =>
            LET H == phase_history[i].at IN
            /\ (block_number = H => i = Len(phase_history))
            /\ ((block_number > H + 1 \/ (block_number = H + 1 /\ InherentApplied))
                  => i + 1 <= Len(phase_history))
            /\ (i + 1 <= Len(phase_history) =>
                  /\ phase_history[i + 1].phase.tag = "Committed"
                  /\ phase_history[i + 1].at = H + 1)
            /\ ((block_number > H + 2 \/ (block_number = H + 2 /\ InherentApplied))
                  => i + 2 <= Len(phase_history))
            /\ (i + 2 <= Len(phase_history) =>
                  /\ phase_history[i + 2].phase = NoPhase
                  /\ phase_history[i + 2].at = H + 2)

\* C3 witness: a commit pair has completed, two blocks after Commiting was stored
C3_Witness ==
    \E i \in 1..Len(phase_history) :
        /\ phase_history[i].phase.tag = "Commiting"
        /\ i + 2 <= Len(phase_history)
        /\ phase_history[i + 2].phase = NoPhase
        /\ phase_history[i + 2].at = phase_history[i].at + 2

FinalizedAfterPhaseChange ==
    /\ block_pc = "finalized"
    /\ Len(phase_history) >= 1
    /\ phase_history[Len(phase_history)].at = block_number

\* the logs of a digest, as a set
LogsOf(d) == {d[i] : i \in 1..Len(d)}

\* C21 as stated: for every block in which set_shard_info changed the phase, whichever
\* of the six transitions it was, on_finalize deposits in the block's digest a
\* ShardMarker log and a ScaleOutPhase log recording the transition.
C21_Original_EveryTransitionLogged ==
    FinalizedAfterPhaseChange =>
        /\ ShardMarkerLog(CurrentShardInfo.num, CurrentShardInfo.count) \in LogsOf(digest)
        /\ \E l \in LogsOf(digest) :
              /\ l.log = "ScaleOutPhase"
              /\ l.phase = phase_history[Len(phase_history)].phase

\* C21 amended: for every block in which set_shard_info changed the phase, on_finalize
\* deposits a ShardMarker log; for the five transitions into Started, NativeReady,
\* Ready, Commiting and Committed it also deposits a ScaleOutPhase log carrying the
\* new phase; for Committed->None it deposits no ScaleOutPhase log.
C21_TransitionsLoggedButNone ==
    FinalizedAfterPhaseChange =>
        /\ ShardMarkerLog(CurrentShardInfo.num, CurrentShardInfo.count) \in LogsOf(digest)
        /\ IF phase_history[Len(phase_history)].phase # NoPhase
           THEN /\ ScaleOutPhaseLog(phase_history[Len(phase_history)].phase) \in LogsOf(digest)
                /\ Len(digest) = 2
           ELSE /\ \A l \in LogsOf(digest) : l.log # "ScaleOutPhase"
                /\ Len(digest) = 1

\* C21 witness: the block whose set_shard_info took the phase from Committed to None
\* has been finalized
C21_Witness ==
    /\ FinalizedAfterPhaseChange
    /\ Len(phase_history) >= 6
    /\ phase_history[Len(phase_history)].phase = NoPhase
    /\ phase_history[Len(phase_history) - 1].phase.tag = "Committed"

\* C23: when the stored phase is None, set_shard_info at block number n with
\* info.scale_out = Some{shard_num: t} stores Started{observe_util: n + W, shard_num: t},
\* W being ScaleOutObserveBlocks; with info.scale_out = None the phase stays None.
C23_NoneToStarted ==
    [][(IsInherentStep /\ CurrentScaleOutPhase = NoPhase) =>
         IF CurrentShardInfo'.scale_out.is_some
         THEN CurrentScaleOutPhase' = Started(block_number + scale_out_observe_blocks,
                                              CurrentShardInfo'.scale_out.shard_num)
         ELSE CurrentScaleOutPhase' = NoPhase]_vars

\* C23 witness: Started has just been stored from None with a window of two blocks
C23_Witness ==
    /\ block_pc = "applied"
    /\ Len(phase_history) = 1
    /\ phase_history[1].at = block_number
    /\ scale_out_observe_blocks = 2
    /\ CurrentScaleOutPhase = Started(block_number + 2, CurrentShardInfo.scale_out.shard_num)


\* a step of on_finalize, and a step in which a ShardingInfo accessor returns
IsFinalizeStep == block_pc = "applied" /\ block_pc' = "finalized"
IsAccessorStep == accessor_result'.called /\ block_pc' = block_pc

\* C35: CurrentScaleOutPhase and CurrentShardInfo are written only by set_shard_info:
\* every step that changes one of them is the block's set_shard_info inherent, and
\* on_finalize and the accessors get_genesis_shard_count, get_curr_shard and
\* get_shard_count leave both as they are.
C35_WrittenOnlyBySetShardInfo ==
    [][/\ (\/ CurrentScaleOutPhase' # CurrentScaleOutPhase
           \/ CurrentShardInfo' # CurrentShardInfo) => IsInherentStep
       /\ (IsFinalizeStep \/ IsAccessorStep) =>
              /\ CurrentScaleOutPhase' = CurrentScaleOutPhase
              /\ CurrentShardInfo' = CurrentShardInfo]_vars

\* C35 witness: in a block whose stored phase is Started, get_shard_count has returned
\* and on_finalize has logged the phase; both storage items still hold their values
C35_Witness ==
    /\ block_pc = "finalized"
    /\ accessor_result.called
    /\ accessor_result.accessor = "get_shard_count"
    /\ ~accessor_result.panicked
    /\ CurrentScaleOutPhase.tag = "Started"
    /\ CurrentShardInfo.is_some
    /\ ScaleOutPhaseLog(CurrentScaleOutPhase) \in LogsOf(digest)

\* C36: with set_shard_info applied once in every block, a scale-out that has entered
\* Started returns the phase to None, for every observation window W >= 0. In finite
\* form: the phase stored as Started in block B is None again once block B + 3W + 2
\* has been applied, and a phase that waits for observe_util never finds that block
\* already behind it.
C36_Claim_ScaleOutEnds ==
    /\ \A i \in 1..Len(phase_history) :
           (/\ phase_history[i].phase.tag = "Started"
            /\ \/ block_number > phase_history[i].at + 3 * scale_out_observe_blocks + 2
               \/ /\ block_number = phase_history[i].at + 3 * scale_out_observe_blocks + 2
                  /\ block_pc \in {"applied", "finalized"})
           => \E j \in (i + 1)..Len(phase_history) : phase_history[j].phase = NoPhase
    /\ (CurrentScaleOutPhase.tag \in ObservingTags /\ block_pc = "initialized") =>
           CurrentScaleOutPhase.observe_util >= block_number

\* the target shard number of the ShardInfo a set_shard_info call has just stored
StoredTarget(info) == IF info.scale_out.is_some THEN info.scale_out.shard_num ELSE info.num

\* C37 as claimed: the shard_num recorded when Started is entered is the shard_num of
\* every later phase of the same scale-out (NativeReady, Ready, Committed), whatever
\* ShardInfo the later blocks supply.
C37_Original_TargetKept ==
    \A j \in 1..Len(phase_history) :
        /\ (phase_history[j].phase.tag = "NativeReady" /\ j > 1) =>
               phase_history[j].phase.shard_num = phase_history[j - 1].phase.shard_num
        /\ (phase_history[j].phase.tag = "Ready" /\ j > 2) =>
               phase_history[j].phase.shard_num = phase_history[j - 2].phase.shard_num
        /\ (phase_history[j].phase.tag = "Committed" /\ j > 4) =>
               phase_history[j].phase.shard_num = phase_history[j - 4].phase.shard_num

\* C37 as amended: the shard_num recorded in a phase (Started, NativeReady, Ready,
\* Committed) is the target shard number of the ShardInfo supplied to the call that
\* stores that phase (scale_out.shard_num if present, else num), and stays as stored
\* until the next transition.
C37_ShardNumOfStoringCall ==
    [][/\ (/\ CurrentScaleOutPhase' # CurrentScaleOutPhase
           /\ CurrentScaleOutPhase'.tag \in {"Started", "NativeReady", "Ready", "Committed"})
          => CurrentScaleOutPhase'.shard_num = StoredTarget(CurrentShardInfo')
       /\ (/\ CurrentScaleOutPhase'.tag = CurrentScaleOutPhase.tag
           /\ CurrentScaleOutPhase.tag \in {"Started", "NativeReady", "Ready", "Committed"})
          => CurrentScaleOutPhase'.shard_num = CurrentScaleOutPhase.shard_num]_vars

\* C37 witness: a NativeReady phase whose shard_num is not the one recorded in the
\* Started phase before it
C37_Witness ==
    \E j \in 2..Len(phase_history) :
        /\ phase_history[j].phase.tag = "NativeReady"
        /\ phase_history[j - 1].phase.tag = "Started"
        /\ phase_history[j].phase.shard_num # phase_history[j - 1].phase.shard_num

\* C38: for every shard count C of the u16 shard-number type, the Ready -> Commiting
\* transition stores shard_count = 2 * C as a number: the call does not fail, the
\* doubling does not wrap modulo 2^16, and the stored count is not smaller than C.
C38_Claim_DoublingExact ==
    /\ dispatch_result # "Panic"
    /\ (/\ block_pc = "applied"
        /\ Len(phase_history) >= 1
        /\ phase_history[Len(phase_history)].at = block_number
        /\ phase_history[Len(phase_history)].phase.tag = "Commiting") =>
           /\ phase_history[Len(phase_history)].phase.shard_count = 2 * CurrentShardInfo.count
           /\ phase_history[Len(phase_history)].phase.shard_count >= CurrentShardInfo.count

\* C39: set_shard_info called with an origin other than None returns an error and
\* leaves CurrentShardInfo and CurrentScaleOutPhase unchanged.
C39_BadOriginChangesNothing ==
    [][\A origin \in Origins \ {"None"}, info \in ShardInfos :
          set_shard_info(origin, info) =>
              /\ dispatch_result' = "BadOrigin"
              /\ CurrentShardInfo' = CurrentShardInfo
              /\ CurrentScaleOutPhase' = CurrentScaleOutPhase]_vars

\* C39 witness: a signed call has been refused in a block whose inherent had stored a
\* shard info and a phase
C39_Witness ==
    /\ dispatch_result = "BadOrigin"
    /\ block_pc = "applied"
    /\ CurrentShardInfo.is_some
    /\ CurrentScaleOutPhase.tag = "Started"

(***************************************************************************)
(* client/util: relay_decode.rs, the relay / origin-transfer wire format   *)
(***************************************************************************)

AddressLen == 32
HashLen == 32
SignatureLen == 64
BalanceLen == 16
RelayTypeBalance == 0
RelayTypeAssets == 1
MIN_RELAY_SIZE == 130

\* the result of one read from the input: failure, or a value and the rest
Fail == [ok |-> FALSE]
Read(v, rest) == [ok |-> TRUE, value |-> v, rest |-> rest]

\* a slice or an index past the end of the input: the thread panics
Panic == [ok |-> FALSE, panic |-> TRUE]

\* Option<T> of the decoders
None == [is_some |-> FALSE]
Some(v) == [is_some |-> TRUE, value |-> v]

\* the call did not return: it panicked
Panicked == [is_some |-> FALSE, panicked |-> TRUE]

RECURSIVE le_value(_)
\* the unsigned integer of little-endian bytes
le_value(bytes) ==
    IF bytes = <<>> THEN 0 ELSE Head(bytes) + 256 * le_value(Tail(bytes))

RECURSIVE le_bytes(_, _)
\* the n little-endian bytes of an unsigned integer
le_bytes(v, n) ==
    IF n = 0 THEN <<>> ELSE <<v % 256>> \o le_bytes(v \div 256, n - 1)

RECURSIVE bytes_needed(_)
\* the number of bytes of the big-integer mode of a compact integer
bytes_needed(v) == IF v < 256 THEN 1 ELSE 1 + bytes_needed(v \div 256)

\* n copies of one byte
Repeat(b, n) == [i \in 1..n |-> b]

\* Input::read_byte
read_byte(input) ==
    IF Len(input) < 1 THEN Fail ELSE Read(input[1], Tail(input))

\* reading a fixed number of bytes ([u8; n], AccountId32, H256)
take(input, n) ==
    IF Len(input) < n
    THEN Fail
    ELSE Read(SubSeq(input, 1, n), SubSeq(input, n + 1, Len(input)))

\* Compact<T>::encode: one, two or four bytes with the mode in the low two bits,
\* or a byte count followed by the little-endian bytes
compact_encode(v) ==
    IF v < 64 THEN <<v * 4>>
    ELSE IF v < 16384 THEN <<(v % 64) * 4 + 1>> \o le_bytes(v \div 64, 1)
    ELSE IF v < 1073741824 THEN <<(v % 64) * 4 + 2>> \o le_bytes(v \div 64, 3)
    ELSE LET n == IF bytes_needed(v) < 4 THEN 4 ELSE bytes_needed(v)
         IN  <<(n - 4) * 4 + 3>> \o le_bytes(v, n)

\* Compact<T>::decode for a T of width bytes: the value must be in the range of its
\* mode; a value of 2^31 or more is read as -1, the integers of the model end there
compact_decode(input, width) ==
    IF Len(input) < 1 THEN Fail
    ELSE LET prefix == input[1]
             mode == prefix % 4
         IN  CASE mode = 0 -> Read(prefix \div 4, Tail(input))
               [] mode = 1 ->
                    IF Len(input) < 2 THEN Fail
                    ELSE LET x == prefix \div 4 + 64 * input[2]
                         IN  IF x > 63 THEN Read(x, SubSeq(input, 3, Len(input)))
                             ELSE Fail
               [] mode = 2 ->
                    IF Len(input) < 4 THEN Fail
                    ELSE LET x == prefix \div 4 + 64 * le_value(SubSeq(input, 2, 4))
                         IN  IF x > 16383 THEN Read(x, SubSeq(input, 5, Len(input)))
                             ELSE Fail
               [] mode = 3 ->
                    LET n == prefix \div 4 + 4
                    IN  IF n > width \/ Len(input) < 1 + n THEN Fail
                        ELSE IF input[1 + n] = 0 \/ (n = 4 /\ input[5] < 64) THEN Fail
                        ELSE IF n = 4 /\ input[5] < 128
                        THEN Read(le_value(SubSeq(input, 2, 5)),
                                  SubSeq(input, 6, Len(input)))
                        ELSE Read(-1, SubSeq(input, 2 + n, Len(input)))

\* Vec<u8>::encode and Vec<u8>::decode: a compact length and the bytes
vec_encode(bytes) == compact_encode(Len(bytes)) \o bytes

vec_decode(input) ==
    LET len == compact_decode(input, 4)
    IN  IF ~len.ok THEN Fail
        ELSE IF len.value < 0 THEN Fail
        ELSE take(len.rest, len.value)

\* sp_runtime::generic::Era
Immortal == [mortal |-> FALSE]
Mortal(period, phase) == [mortal |-> TRUE, period |-> period, phase |-> phase]

RECURSIVE trailing_zeros(_)
trailing_zeros(n) == IF n % 2 = 1 THEN 0 ELSE 1 + trailing_zeros(n \div 2)

Max(a, b) == IF a > b THEN a ELSE b
Min(a, b) == IF a < b THEN a ELSE b

\* Era::encode: one zero byte, or the two bytes of period and quantized phase
era_encode(era) ==
    IF ~era.mortal THEN <<0>>
    ELSE LET quantize_factor == Max(era.period \div 4096, 1)
             encoded == Min(15, Max(1, trailing_zeros(era.period) - 1))
                        + (era.phase \div quantize_factor) * 16
         IN  le_bytes(encoded, 2)

\* Era::decode
era_decode(input) ==
    IF Len(input) < 1 THEN Fail
    ELSE IF input[1] = 0 THEN Read(Immortal, Tail(input))
    ELSE IF Len(input) < 2 THEN Fail
    ELSE LET encoded == input[1] + 256 * input[2]
             period == 2 * (2 ^ (encoded % 16))
             quantize_factor == Max(period \div 4096, 1)
             phase == (encoded \div 16) * quantize_factor
         IN  IF period >= 4 /\ phase < period
             THEN Read(Mortal(period, phase), SubSeq(input, 3, Len(input)))
             ELSE Fail

\* Address::default(): the all-zero account id
DefaultAddress == Repeat(0, AddressLen)

\* Blake2Hasher::hash of a byte string
blake2_256(bytes) == [blake2_256_of |-> bytes]

\* mutant: the hash is taken over the origin bytes without their first byte
transfer_hash_of_tail(origin) == blake2_256(Tail(origin))

\* Decode::decode(&mut Blake2Hasher::hash(origin.as_slice()).encode().as_slice()).unwrap()
transfer_hash(origin) == blake2_256(origin)

\* mutant: the Balance is read from the first byte of the re-encoded amount
balance_of_first_byte(a) == le_value(le_bytes(a, 1))

\* the Balance of a decoded Compact<u128>: its 16 little-endian bytes read as u128
balance_of(a) == IF a < 0 THEN a ELSE le_value(le_bytes(a, BalanceLen))

\* input[..n] and &input[n..]: panics when the input is shorter than n
slice_to(input, n) ==
    IF Len(input) < n
    THEN Panic
    ELSE Read(SubSeq(input, 1, n), SubSeq(input, n + 1, Len(input)))

\* mutant: the signature is sliced without the length check
signature_too_short_unchecked(input) == FALSE

\* if input.len() < 64 { return None; }
signature_too_short(input) == Len(input) < SignatureLen

\* if input.len() < 1 { return None; }
era_missing(input) == Len(input) < 1

\* input[0] != 0u8 and the era that follows: panics on an empty input
era_at(input) ==
    IF Len(input) < 1 THEN Panic ELSE era_decode(input)

\* the bytes of the signed part: sender tag, sender, signature, index, era
signed_part(input) ==
    LET type == read_byte(input) IN
    IF ~type.ok THEN Fail ELSE
    LET sender == take(type.rest, AddressLen) IN
    IF ~sender.ok THEN Fail ELSE
    IF signature_too_short(sender.rest) THEN Fail ELSE
    LET signature == slice_to(sender.rest, SignatureLen) IN
    IF ~signature.ok THEN signature ELSE
    LET index == compact_decode(signature.rest, 8) IN
    IF ~index.ok THEN Fail ELSE
    IF era_missing(index.rest) THEN Fail ELSE
    LET era == era_at(index.rest) IN
    IF ~era.ok THEN era ELSE
    Read([sender |-> sender.value, signature |-> signature.value,
          index |-> index.value, era |-> era.value], era.rest)

\* what an unsigned transfer gets instead
unsigned_part(input) ==
    Read([sender |-> DefaultAddress, signature |-> <<>>, index |-> 0, era |-> Immortal],
         input)

\* mutant: only the lowest bit of the version byte is looked at
version_bits_lowest(byte) == byte % 2

\* let version = version & 0b0111_1111
version_bits(byte) == byte % 128

\* module, function, dest address type, dest address, amount
call_part(head) ==
    LET input == head.rest IN
    IF Len(input) < 2 + 32 + 1 THEN None ELSE
    LET module == read_byte(input) IN
    IF ~module.ok THEN None ELSE
    LET func == read_byte(module.rest) IN
    IF ~func.ok THEN None ELSE
    LET type == read_byte(func.rest) IN
    IF ~type.ok THEN None ELSE
    LET dest == take(type.rest, AddressLen) IN
    IF ~dest.ok THEN None ELSE
    LET amount == compact_decode(dest.rest, BalanceLen) IN
    IF ~amount.ok THEN None ELSE
    Some([sender |-> head.value.sender, signature |-> head.value.signature,
          index |-> head.value.index, era |-> head.value.era,
          dest |-> dest.value, amount |-> balance_of(amount.value)])

\* OriginTransfer::decode(data: &[u8]) -> Option<Self>
OriginTransfer_decode(data) ==
    IF Len(data) < 64 + 1 + 1 THEN None ELSE
    LET len == compact_decode(data, 4) IN
    IF ~len.ok THEN None ELSE
    LET v == read_byte(len.rest) IN
    IF ~v.ok THEN None ELSE
    LET is_signed == v.value >= 128
        version == version_bits(v.value)
    IN
    IF version # 1 THEN None ELSE
    LET head == IF is_signed THEN signed_part(v.rest) ELSE unsigned_part(v.rest) IN
    IF head = Panic THEN Panicked ELSE
    IF ~head.ok THEN None ELSE call_part(head)

\* mutant: the signed flag of the wrapper is not looked at
wrapper_rejected_on_version_only(is_signed, version) == version # 1

\* has signed or version not satisfy: if is_signed || version != 1u8
wrapper_rejected(is_signed, version) == is_signed \/ version # 1

\* RelayTransfer::decode(data: &[u8]) -> Option<Self>
RelayTransfer_decode(data) ==
    LET len == compact_decode(data, 4) IN
    IF ~len.ok THEN None ELSE
    LET v == read_byte(len.rest) IN
    IF ~v.ok THEN None ELSE
    LET is_signed == v.value >= 128
        version == version_bits(v.value)
    IN
    IF wrapper_rejected(is_signed, version) THEN None ELSE
    LET module == read_byte(v.rest) IN
    IF ~module.ok THEN None ELSE
    LET func == read_byte(module.rest) IN
    IF ~func.ok THEN None ELSE
    IF Len(func.rest) < 64 + 32 + 32 + 2 THEN None ELSE
    LET origin == vec_decode(func.rest) IN
    IF ~origin.ok THEN None ELSE
    LET number == compact_decode(origin.rest, 8) IN
    IF ~number.ok THEN None ELSE
    LET block_hash == take(number.rest, HashLen) IN
    IF ~block_hash.ok THEN None ELSE
    LET parent == take(block_hash.rest, HashLen) IN
    IF ~parent.ok THEN None ELSE
    LET ot == OriginTransfer_decode(origin.value) IN
    IF ot.is_some
    THEN Some([transfer |-> ot.value, number |-> number.value,
               hash |-> transfer_hash(origin.value), block_hash |-> block_hash.value,
               parent |-> parent.value, origin |-> origin.value])
    ELSE ot

\* RelayTypes::decode: the index of the variant in one byte
relay_type_decode(input) ==
    LET tag == read_byte(input) IN
    IF ~tag.ok THEN Fail
    ELSE IF tag.value \in {RelayTypeBalance, RelayTypeAssets} THEN tag
    ELSE Fail

\* RelayParams::decode(input: Vec<u8>) -> Option<Self>
RelayParams_decode(data) ==
    IF Len(data) <= MIN_RELAY_SIZE THEN None ELSE
    LET len == compact_decode(data, 4) IN
    IF ~len.ok THEN None ELSE
    LET v == read_byte(len.rest) IN
    IF ~v.ok THEN None ELSE
    LET is_signed == v.value >= 128
        version == version_bits(v.value)
    IN
    IF wrapper_rejected(is_signed, version) THEN None ELSE
    LET module == read_byte(v.rest) IN
    IF ~module.ok THEN None ELSE
    LET func == read_byte(module.rest) IN
    IF ~func.ok THEN None ELSE
    LET relay_type == relay_type_decode(func.rest) IN
    IF ~relay_type.ok THEN None ELSE
    LET origin == vec_decode(relay_type.rest) IN
    IF ~origin.ok THEN None ELSE
    LET number == compact_decode(origin.rest, 8) IN
    IF ~number.ok THEN None ELSE
    LET block_hash == take(number.rest, HashLen) IN
    IF ~block_hash.ok THEN None ELSE
    LET parent_hash == take(block_hash.rest, HashLen) IN
    IF ~parent_hash.ok THEN None ELSE
    Some([number |-> number.value, hash |-> transfer_hash(origin.value),
          block_hash |-> block_hash.value, parent_hash |-> parent_hash.value,
          relay_type |-> relay_type.value, origin |-> origin.value])

\* OriginExtrinsic::decode after the signed part: module, function, shard code and
\* asset id when the relay type is Assets, dest address type, dest address, amount
extrinsic_call_part(relay_type, head) ==
    LET input == head.rest IN
    IF Len(input) < 2 + 32 + 1 THEN None ELSE
    LET module == read_byte(input) IN
    IF ~module.ok THEN None ELSE
    LET func == read_byte(module.rest) IN
    IF ~func.ok THEN None ELSE
    LET shard_code == IF relay_type = RelayTypeAssets
                      THEN vec_decode(func.rest)
                      ELSE Read(<<>>, func.rest)
    IN
    IF ~shard_code.ok THEN None ELSE
    LET id == IF relay_type = RelayTypeAssets
              THEN compact_decode(shard_code.rest, 4)
              ELSE Read(0, shard_code.rest)
    IN
    IF ~id.ok THEN None ELSE
    LET type == read_byte(id.rest) IN
    IF ~type.ok THEN None ELSE
    LET dest == take(type.rest, AddressLen) IN
    IF ~dest.ok THEN None ELSE
    LET amount == compact_decode(dest.rest, BalanceLen) IN
    IF ~amount.ok THEN None ELSE
    Some([shard |-> shard_code.value,
          id |-> IF relay_type = RelayTypeAssets THEN Some(id.value) ELSE None,
          sender |-> head.value.sender, signature |-> head.value.signature,
          index |-> head.value.index, era |-> head.value.era,
          dest |-> dest.value, amount |-> balance_of(amount.value)])

\* OriginExtrinsic::decode(relay_type: RelayTypes, input: Vec<u8>) -> Option<Self>
OriginExtrinsic_decode(relay_type, data) ==
    IF Len(data) < 64 + 1 + 1 THEN None ELSE
    LET len == compact_decode(data, 4) IN
    IF ~len.ok THEN None ELSE
    LET v == read_byte(len.rest) IN
    IF ~v.ok THEN None ELSE
    LET is_signed == v.value >= 128
        version == version_bits(v.value)
    IN
    IF version # 1 THEN None ELSE
    LET head == IF is_signed THEN signed_part(v.rest) ELSE unsigned_part(v.rest) IN
    IF head = Panic THEN Panicked ELSE
    IF ~head.ok THEN None ELSE extrinsic_call_part(relay_type, head)

\* ---- the encoders of the wire format ----

\* the bytes after the length prefix of an origin transfer
OriginTransfer_body(x) ==
    <<(IF x.signed THEN 128 ELSE 0) + 1>>
    \o (IF x.signed
        THEN <<255>> \o x.sender \o x.signature \o compact_encode(x.index)
             \o era_encode(x.era)
        ELSE <<>>)
    \o <<x.module, x.func>>
    \o <<255>> \o x.dest \o compact_encode(x.amount)

\* an origin transfer on the wire
OriginTransfer_encode(x) ==
    compact_encode(Len(OriginTransfer_body(x))) \o OriginTransfer_body(x)

\* the bytes after the length prefix of a relay transfer
RelayTransfer_body(r) ==
    <<1, r.module, r.func, r.relay_type>>
    \o vec_encode(OriginTransfer_encode(r.transfer))
    \o compact_encode(r.number) \o r.block_hash \o r.parent

\* a relay transfer on the wire
RelayTransfer_encode(r) ==
    compact_encode(Len(RelayTransfer_body(r))) \o RelayTransfer_body(r)

\* an origin transfer of an asset: shard code and asset id follow the function id
AssetTransfer_body(x) ==
    <<(IF x.signed THEN 128 ELSE 0) + 1>>
    \o (IF x.signed
        THEN <<255>> \o x.sender \o x.signature \o compact_encode(x.index)
             \o era_encode(x.era)
        ELSE <<>>)
    \o <<x.module, x.func>>
    \o vec_encode(x.shard) \o compact_encode(x.id)
    \o <<255>> \o x.dest \o compact_encode(x.amount)

AssetTransfer_encode(x) ==
    compact_encode(Len(AssetTransfer_body(x))) \o AssetTransfer_body(x)

\* the origin bytes inside a relay wrapper, by its relay type
relay_origin_bytes(r) ==
    IF r.relay_type = RelayTypeAssets
    THEN AssetTransfer_encode(r.transfer)
    ELSE OriginTransfer_encode(r.transfer)

\* the wrapper with its relay type tag, as RelayParams::decode reads it
RelayParams_body(r) ==
    <<1, r.module, r.func, r.relay_type>>
    \o vec_encode(relay_origin_bytes(r))
    \o compact_encode(r.number) \o r.block_hash \o r.parent

RelayParams_encode(r) ==
    compact_encode(Len(RelayParams_body(r))) \o RelayParams_body(r)

\* the wrapper as RelayTransfer::decode reads it: the origin vector follows the
\* function id
RelayTransfer_read_body(r) ==
    <<1, r.module, r.func>>
    \o vec_encode(OriginTransfer_encode(r.transfer))
    \o compact_encode(r.number) \o r.block_hash \o r.parent

RelayTransfer_read_encode(r) ==
    compact_encode(Len(RelayTransfer_read_body(r))) \o RelayTransfer_read_body(r)

\* the same wrapper with the signed flag set in its own version byte
RelayTransfer_signed_wrapper(r) ==
    compact_encode(Len(RelayTransfer_read_body(r)))
    \o <<128 + 1>> \o Tail(RelayTransfer_read_body(r))

\* a buffer with the byte after its length prefix replaced by another version byte
with_version(buf, byte) ==
    LET at == Len(buf) - Len(compact_decode(buf, 4).rest) + 1 IN
    [i \in 1..Len(buf) |-> IF i = at THEN byte ELSE buf[i]]

\* ---- the transfers that are encoded ----

Senders == {Repeat(1, AddressLen)}
Dests == {Repeat(2, AddressLen), DefaultAddress}
Signatures == {Repeat(7, SignatureLen)}
Indexes == {0, 1, 64}
Eras == {Immortal, Mortal(64, 37)}
Amounts == {0, 1000, 16384, 1073741824}
BlockNumbers == {5, 300}
BlockHashes == {Repeat(9, HashLen)}
ParentHashes == {Repeat(8, HashLen)}

SignedTransfers ==
    [signed : {TRUE}, sender : Senders, signature : Signatures, index : Indexes,
     era : Eras, module : {3}, func : {0}, dest : Dests, amount : Amounts]

UnsignedTransfers ==
    [signed : {FALSE}, sender : {DefaultAddress}, signature : {<<>>}, index : {0},
     era : {Immortal}, module : {3}, func : {0}, dest : Dests, amount : Amounts]

OriginTransfers == SignedTransfers \cup UnsignedTransfers

RelayTransfers ==
    [transfer : OriginTransfers, module : {9}, func : {0},
     relay_type : {RelayTypeBalance}, number : BlockNumbers,
     block_hash : BlockHashes, parent : ParentHashes]

NoSource == [kind |-> "none"]
NotDecoded == [by |-> "none"]
NotCut == [cut |-> FALSE]

\* an origin transfer is built and encoded
encode_origin_transfer(x) ==
    /\ cd_x' = [kind |-> "origin", x |-> x]
    /\ cd_buf' = OriginTransfer_encode(x)
    /\ cd_result' = NotDecoded
    /\ cd_cut' = NotCut
    /\ UNCHANGED outside_codec

\* a relay transfer is built and encoded
encode_relay_transfer(r) ==
    /\ cd_x' = [kind |-> "relay", x |-> r]
    /\ cd_buf' = RelayTransfer_encode(r)
    /\ cd_result' = NotDecoded
    /\ cd_cut' = NotCut
    /\ UNCHANGED outside_codec

\* OriginTransfer::decode is called with the buffer
origin_transfer_decode ==
    /\ cd_x.kind # "none"
    /\ cd_result' = [by |-> "OriginTransfer", value |-> OriginTransfer_decode(cd_buf)]
    /\ UNCHANGED <<cd_x, cd_buf, cd_cut>>
    /\ UNCHANGED outside_codec

\* RelayTransfer::decode is called with the buffer
relay_transfer_decode ==
    /\ cd_x.kind # "none"
    /\ cd_result' = [by |-> "RelayTransfer", value |-> RelayTransfer_decode(cd_buf)]
    /\ UNCHANGED <<cd_x, cd_buf, cd_cut>>
    /\ UNCHANGED outside_codec

\* RelayParams::decode is called with the buffer
relay_params_decode ==
    /\ cd_x.kind # "none"
    /\ cd_result' = [by |-> "RelayParams", value |-> RelayParams_decode(cd_buf)]
    /\ UNCHANGED <<cd_x, cd_buf, cd_cut>>
    /\ UNCHANGED outside_codec

\* OriginExtrinsic::decode is called with a relay type and the buffer
origin_extrinsic_decode(relay_type) ==
    /\ cd_x.kind # "none"
    /\ cd_result' = [by |-> "OriginExtrinsic", relay_type |-> relay_type,
                     value |-> OriginExtrinsic_decode(relay_type, cd_buf)]
    /\ UNCHANGED <<cd_x, cd_buf, cd_cut>>
    /\ UNCHANGED outside_codec

\* the decoder of a result: its name, and its relay type argument if it has one
decoder_of(result) == [f \in DOMAIN result \ {"value"} |-> result[f]]

\* a buffer a decoder has accepted is cut to its first k bytes
truncate(k) ==
    /\ ~cd_cut.cut
    /\ cd_result.by # "none"
    /\ cd_result.value.is_some
    /\ k < Len(cd_buf)
    /\ cd_buf' = SubSeq(cd_buf, 1, k)
    /\ cd_cut' = [cut |-> TRUE, accepted_by |-> decoder_of(cd_result)]
    /\ cd_result' = NotDecoded
    /\ UNCHANGED cd_x
    /\ UNCHANGED outside_codec

CodecInit ==
    /\ cd_x = NoSource
    /\ cd_buf = <<>>
    /\ cd_result = NotDecoded
    /\ cd_cut = NotCut

CodecParked == CodecInit

CodecNext ==
    \/ \E x \in OriginTransfers : encode_origin_transfer(x)
    \/ \E r \in RelayTransfers : encode_relay_transfer(r)
    \/ origin_transfer_decode
    \/ relay_transfer_decode

\* ---- decoding given buffers, whole and cut short ----

SignedSamples ==
    {x \in SignedTransfers :
        /\ x.index = 64
        /\ x.dest = Repeat(2, AddressLen)}

UnsignedSamples ==
    {x \in UnsignedTransfers : x.dest = Repeat(2, AddressLen) /\ x.amount = 1000}

AssetSamples ==
    [signed : {TRUE}, sender : Senders, signature : Signatures, index : {1},
     era : {Mortal(64, 37)}, module : {4}, func : {0}, shard : {<<0, 1>>}, id : {7, 100},
     dest : {Repeat(2, AddressLen)}, amount : {1000}]

RelaySamples ==
    [transfer : SignedSamples \cup UnsignedSamples, module : {9}, func : {0},
     relay_type : {RelayTypeBalance}, number : {300},
     block_hash : BlockHashes, parent : ParentHashes]

AssetRelaySamples ==
    [transfer : AssetSamples, module : {9}, func : {0},
     relay_type : {RelayTypeAssets}, number : {5},
     block_hash : BlockHashes, parent : ParentHashes]

\* the bytes of the buffer of test_decode
test_decode_tx ==
    <<
      37, 2, 129, 255, 120, 76, 178, 154, 96, 91, 85, 124, 17, 163, 226, 37,
      32, 56, 124, 67, 119, 222, 209, 115, 79, 86, 144, 13, 127, 4, 148, 106,
      11, 112, 243, 56, 188, 155, 15, 242, 255, 164, 185, 93, 68, 121, 203, 172,
      206, 252, 123, 190, 144, 132, 48, 245, 197, 236, 87, 26, 37, 199, 30, 224,
      5, 213, 117, 91, 101, 183, 118, 141, 255, 144, 71, 154, 9, 240, 213, 69,
      56, 78, 87, 240, 87, 112, 118, 100, 226, 250, 37, 8, 24, 135, 122, 26,
      90, 151, 31, 15, 48, 0, 3, 0, 255, 142, 175, 4, 21, 22, 135, 115,
      99, 38, 201, 254, 161, 126, 37, 252, 82, 135, 97, 54, 147, 201, 18, 144,
      156, 178, 38, 170, 71, 148, 242, 106, 72, 161, 15
    >>

\* version bytes whose low 7 bits are not 1, with and without the signed flag
BadVersionBytes == {0, 3, 128, 128 + 3}

\* the buffers whose version byte is replaced: a signed origin transfer, an asset
\* transfer, a tagged wrapper and the wrapper as RelayTransfer::decode reads it
VersionedBuffers ==
    {OriginTransfer_encode(x) : x \in {y \in SignedSamples : y.amount = 1000 /\ ~y.era.mortal}}
    \cup {AssetTransfer_encode(x) : x \in {y \in AssetSamples : y.id = 7}}
    \cup {RelayParams_encode(r) : r \in {q \in RelaySamples : ~q.transfer.signed}}
    \cup {RelayTransfer_read_encode(r) : r \in {q \in RelaySamples : ~q.transfer.signed}}

\* the buffers handed to the decoders, each with the transfer it encodes
DecodeSources ==
    {[kind |-> "sample", x |-> [name |-> "test_decode"], buf |-> test_decode_tx]}
    \cup
    {[kind |-> "origin", x |-> x, buf |-> OriginTransfer_encode(x)] :
        x \in SignedSamples \cup UnsignedSamples}
    \cup {[kind |-> "asset", x |-> x, buf |-> AssetTransfer_encode(x)] : x \in AssetSamples}
    \cup {[kind |-> "relay", x |-> r, buf |-> RelayParams_encode(r)] :
            r \in RelaySamples \cup AssetRelaySamples}
    \cup {[kind |-> "relay_read", x |-> r, buf |-> RelayTransfer_read_encode(r)] :
            r \in RelaySamples}
    \cup {[kind |-> "relay_signed_wrapper", x |-> r, buf |-> RelayTransfer_signed_wrapper(r)] :
            r \in RelaySamples}
    \cup {[kind |-> "bad_version", x |-> [version |-> byte], buf |-> with_version(buf, byte)] :
            byte \in BadVersionBytes, buf \in VersionedBuffers}

DecodeInit ==
    /\ \E src \in DecodeSources :
          /\ cd_x = [kind |-> src.kind, x |-> src.x]
          /\ cd_buf = src.buf
    /\ cd_result = NotDecoded
    /\ cd_cut = NotCut

DecodeNext ==
    \/ origin_transfer_decode
    \/ relay_transfer_decode
    \/ relay_params_decode
    \/ \E t \in {RelayTypeBalance, RelayTypeAssets} : origin_extrinsic_decode(t)
    \/ \E k \in 0..(Len(cd_buf) - 1) : truncate(k)

(***************************************************************************)
(* Claims about the relay codec                                            *)
(***************************************************************************)

\* the decoded origin transfer has the fields of the encoded one
SameTransfer(decoded, x) ==
    /\ decoded.sender = x.sender
    /\ decoded.signature = x.signature
    /\ decoded.index = x.index
    /\ decoded.era = x.era
    /\ decoded.dest = x.dest
    /\ decoded.amount = x.amount

\* C10: for any validly constructed OriginTransfer or RelayTransfer x, decoding the
\* encoding of x returns a record equal to x on sender, signature, nonce, era,
\* destination and amount, and for a relay transfer also on origin block number,
\* block hash, parent hash and the raw origin bytes.
C10_Claim_RoundTrip ==
    /\ (cd_x.kind = "origin" /\ cd_result.by = "OriginTransfer") =>
          /\ cd_result.value.is_some
          /\ SameTransfer(cd_result.value.value, cd_x.x)
    /\ (cd_x.kind = "relay" /\ cd_result.by = "RelayTransfer") =>
          /\ cd_result.value.is_some
          /\ SameTransfer(cd_result.value.value.transfer, cd_x.x.transfer)
          /\ cd_result.value.value.number = cd_x.x.number
          /\ cd_result.value.value.block_hash = cd_x.x.block_hash
          /\ cd_result.value.value.parent = cd_x.x.parent
          /\ cd_result.value.value.origin = OriginTransfer_encode(cd_x.x.transfer)

\* the decoders a buffer of a kind is a valid encoding for
decoders_of_kind(kind) ==
    CASE kind \in {"origin", "sample"} -> {[by |-> "OriginTransfer"],
                             [by |-> "OriginExtrinsic", relay_type |-> RelayTypeBalance]}
      [] kind = "asset" -> {[by |-> "OriginExtrinsic", relay_type |-> RelayTypeAssets]}
      [] kind = "relay" -> {[by |-> "RelayParams"]}
      [] kind = "relay_read" -> {[by |-> "RelayTransfer"]}
      [] OTHER -> {}

C12_HashOfRawOrigin ==
    (/\ cd_result.by \in {"RelayTransfer", "RelayParams"}
     /\ cd_result.value.is_some) =>
        /\ cd_result.value.value.hash = blake2_256(cd_result.value.value.origin)
        /\ (cd_x.kind = "relay" /\ cd_result.by = "RelayParams") =>
               cd_result.value.value.origin = relay_origin_bytes(cd_x.x)
        /\ (cd_x.kind = "relay_read" /\ cd_result.by = "RelayTransfer") =>
               cd_result.value.value.origin = OriginTransfer_encode(cd_x.x.transfer)

\* C12 witness: RelayTransfer::decode has returned a relay transfer
C12_Witness ==
    /\ cd_x.kind = "relay_read"
    /\ cd_result.by = "RelayTransfer"
    /\ cd_result.value.is_some
    /\ cd_result.value.value.hash = blake2_256(OriginTransfer_encode(cd_x.x.transfer))

\* C14: OriginTransfer::decode of a valid signed transfer returns as amount the value
\* of the compact u128 that ends the buffer, unchanged by the re-encoding through the
\* Balance width; for the sample buffer, which ends in a1 0f, the amount is 1000.
C14_AmountIsTrailingCompact ==
    /\ (/\ cd_x.kind = "origin"
        /\ cd_x.x.signed
        /\ ~cd_cut.cut
        /\ cd_result.by = "OriginTransfer") =>
           /\ cd_result.value.is_some
           /\ cd_result.value.value.amount = cd_x.x.amount
           /\ \E n \in 1..5 :
                 compact_decode(SubSeq(cd_buf, Len(cd_buf) - n + 1, Len(cd_buf)), BalanceLen)
                   = Read(cd_result.value.value.amount, <<>>)
    /\ (/\ cd_x.kind = "sample"
        /\ ~cd_cut.cut
        /\ cd_result.by = "OriginTransfer") =>
           /\ SubSeq(cd_buf, Len(cd_buf) - 1, Len(cd_buf)) = <<161, 15>>
           /\ cd_result.value.is_some
           /\ cd_result.value.value.amount = 1000

\* C14 witness: the sample buffer has been decoded to amount 1000
C14_Witness ==
    /\ cd_x.kind = "sample"
    /\ ~cd_cut.cut
    /\ cd_result.by = "OriginTransfer"
    /\ cd_result.value.is_some
    /\ cd_result.value.value.amount = 1000

\* C20 as claimed: RelayTransfer::decode returns None whenever the origin transfer
\* embedded in the relay wrapper has its signed flag set; it never returns a relay
\* transfer built from a signed embedded origin transfer.
C20_Original_SignedOriginRejected ==
    (/\ cd_x.kind \in {"relay", "relay_read", "relay_signed_wrapper"}
     /\ cd_x.x.transfer.signed
     /\ ~cd_cut.cut
     /\ cd_result.by = "RelayTransfer") => ~cd_result.value.is_some

\* C20 as amended: RelayTransfer::decode returns None whenever the version byte of the
\* relay wrapper itself has the signed flag set; a signed embedded origin transfer is
\* not rejected, the relay transfer returned carries its sender and signature.
C20_SignedWrapperRejected ==
    /\ (/\ cd_x.kind = "relay_signed_wrapper"
        /\ cd_result.by = "RelayTransfer") => cd_result.value = None
    /\ (/\ cd_x.kind = "relay_read"
        /\ cd_x.x.transfer.signed
        /\ ~cd_cut.cut
        /\ cd_result.by = "RelayTransfer") =>
           /\ cd_result.value.is_some
           /\ cd_result.value.value.transfer.sender = cd_x.x.transfer.sender
           /\ cd_result.value.value.transfer.signature = cd_x.x.transfer.signature

\* C20 witness: a wrapper with the signed flag in its own version byte, around a
\* signed origin transfer, has been given whole to RelayTransfer::decode
C20_Witness ==
    /\ cd_x.kind = "relay_signed_wrapper"
    /\ cd_x.x.transfer.signed
    /\ ~cd_cut.cut
    /\ cd_result.by = "RelayTransfer"
    /\ cd_result.value = None

\* C33: OriginTransfer::decode of a well-formed unsigned transfer (version byte 0x01,
\* module, function, destination tag, 32-byte destination, compact amount) succeeds
\* and returns sender = Address::default(), an empty signature, nonce 0, era Immortal,
\* and the encoded destination and amount.
C33_Claim_UnsignedTransferDecodes ==
    (/\ cd_x.kind = "origin"
     /\ ~cd_x.x.signed
     /\ ~cd_cut.cut
     /\ cd_result.by = "OriginTransfer") =>
        /\ cd_result.value.is_some
        /\ cd_result.value.value.sender = DefaultAddress
        /\ cd_result.value.value.signature = <<>>
        /\ cd_result.value.value.index = 0
        /\ cd_result.value.value.era = Immortal
        /\ cd_result.value.value.dest = cd_x.x.dest
        /\ cd_result.value.value.amount = cd_x.x.amount

\* the low 7 bits of the version byte of a buffer, when it has one
VersionOf(buf) ==
    LET len == compact_decode(buf, 4) IN
    IF len.ok /\ Len(len.rest) >= 1 THEN <<len.rest[1] % 128>> ELSE <<>>

\* C34: every decoder (OriginTransfer::decode, RelayTransfer::decode,
\* RelayParams::decode, OriginExtrinsic::decode) returns None whenever the low 7 bits
\* of the version byte are not 1, whatever the rest of the buffer holds.
C34_VersionMustBeOne ==
    (cd_result.by # "none" /\ VersionOf(cd_buf) # <<1>>) => cd_result.value = None

\* C34 witness: a tagged relay wrapper, long enough for every length check and valid
\* but for its version byte 3, has been refused by RelayParams::decode
C34_Witness ==
    /\ cd_x.kind = "bad_version"
    /\ VersionOf(cd_buf) = <<3>>
    /\ Len(cd_buf) > MIN_RELAY_SIZE
    /\ RelayParams_decode(with_version(cd_buf, 1)).is_some
    /\ cd_result.by = "RelayParams"
    /\ cd_result.value = None

\* C40: on a buffer laid out in the documented relay wrapper format (version, module,
\* function, relay_type tag, length-prefixed origin bytes, block number, block hash,
\* parent hash), RelayParams::decode and RelayTransfer::decode both succeed and return
\* the same origin bytes, origin block number, block hash, parent hash and transfer
\* hash.
C40_Claim_DecodersAgree ==
    (/\ cd_x.kind = "relay"
     /\ ~cd_cut.cut
     /\ cd_result.by = "RelayTransfer") =>
        LET params == RelayParams_decode(cd_buf)
            relay == cd_result.value IN
        /\ params.is_some
        /\ relay.is_some
        /\ relay.value.origin = params.value.origin
        /\ relay.value.number = params.value.number
        /\ relay.value.block_hash = params.value.block_hash
        /\ relay.value.parent = params.value.parent_hash
        /\ relay.value.hash = params.value.hash

(***************************************************************************)
(* frame/relay: the transfer call                                          *)
(***************************************************************************)

RelayTxs == {<<1>>, <<2>>}
RelayHashes == {blake2_256(tx) : tx \in RelayTxs}

\* balances::Module::relay_transfer(tx) and assets::Module::relay_transfer(tx): they
\* get the origin bytes only; whether they credit is theirs to decide
relay_transfer(credits) == IF credits THEN Ok(TRUE) ELSE Err("relay_transfer")

\* pub fn transfer(_origin, relay_type, tx, _number, _hash, _parent) -> Result
transfer(relay_type, tx, hash, credits) ==
    /\ rl_call' = [relay_type |-> relay_type, tx |-> tx, hash |-> hash]
    /\ rl_forwarded' = rl_forwarded \cup
          {[to |-> IF relay_type = RelayTypeBalance THEN "balances" ELSE "assets",
            tx |-> tx, hash |-> hash]}
    /\ rl_result' = relay_transfer(credits)
    /\ UNCHANGED outside_relay

RelayInit ==
    /\ rl_call = [relay_type |-> RelayTypeBalance, tx |-> <<>>, hash |-> blake2_256(<<>>)]
    /\ rl_forwarded = {}
    /\ rl_result = NoResult

RelayParked == RelayInit

RelayNext ==
    \E relay_type \in {RelayTypeBalance, RelayTypeAssets}, tx \in RelayTxs,
       hash \in RelayHashes, credits \in BOOLEAN : transfer(relay_type, tx, hash, credits)

\* C13: the transfer call forwards a relay transfer for crediting only if the hash
\* supplied with the call is the hash of the supplied origin bytes tx; a call whose
\* hash differs is rejected and credits nothing.
C13_Claim_ForwardsOnlyMatchingHash ==
    /\ \A f \in rl_forwarded : f.hash = blake2_256(f.tx)
    /\ (rl_result.returned /\ rl_call.hash # blake2_256(rl_call.tx)) => ~rl_result.ok

(***************************************************************************)
(* client/consensus/pow: the worker loop (start_worker, DefaultWorker)     *)
(***************************************************************************)
\* iter of on_work: the nonces tried for one job (start_worker passes 10000)
WorkIter == 2

\* Delay::new(Duration::from_secs(5)) of delayed_continue
SyncDelaySecs == 5

\* Delay::new(Duration::from_secs(0)) after the task
NoDelaySecs == 0

NoDelay == <<>>

\* is_major_syncing() has not been called in this iteration
Unasked == <<>>

\* what is_major_syncing() returned in this iteration
Answered(syncing) == <<syncing>>

Delay(secs) == <<secs>>

ImportCallers == {"worker", "external"}

\* the Mutex start_pow's block_import is wrapped in, and one more
Mutexes == {"block_import", "rewrapped"}

\* DefaultJobManager::new(.., block_import.clone(), ..): a clone of the Arc
manager_block_import(block_import) == block_import

\* mutant: the worker is given a Mutex of its own around the same block import
worker_block_import_rewrapped(block_import) == "rewrapped"

\* DefaultWorker::new(.., block_import, ..): the Arc itself
worker_block_import(block_import) == block_import

\* the handle a caller's import_block goes through
handle_of(caller) ==
    IF caller = "worker" THEN worker_block_import("block_import")
    ELSE manager_block_import("block_import")

\* mutant: the flag is tested the other way round
read_stop_sign_inverted(sign) ==
    IF sign.poisoned THEN "Err" ELSE IF ~sign.value THEN "stop" ELSE "go"

\* match worker.stop_sign().read() { Ok(stop_sign) => if *stop_sign .., Err(e) => .. }
read_stop_sign(sign) ==
    IF sign.poisoned THEN "Err" ELSE IF sign.value THEN "stop" ELSE "go"

\* mutant: the sync oracle's answer is not acted on
while_major_syncing_ignored(syncing) == "on_work"

\* if sync_oracle.is_major_syncing() { return delayed_continue } ; else the task
while_major_syncing(syncing) == IF syncing THEN "delayed_continue" ELSE "on_work"

\* mutant: task.and_then(..), an Err of the task ends the loop
after_task_propagating(result) == IF result = "Err" THEN "Err" ELSE "Continue"

\* task.then(|_| Delay::new(0)).then(|_| future::ok(Loop::Continue(())))
after_task(result) == "Continue"

\* mutant: the sync oracle is asked before the stop flag is read
loop_fn_body_sync_first(mine, sign, syncing) ==
    IF ~mine THEN [ret |-> "no_delay_stop", cause |-> "mine_off"]
    ELSE IF syncing THEN [ret |-> "delayed_continue", cause |-> "none"]
    ELSE IF read_stop_sign(sign) = "stop" THEN [ret |-> "no_delay_stop", cause |-> "stop_sign"]
    ELSE IF read_stop_sign(sign) = "Err" THEN [ret |-> "no_delay_stop", cause |-> "stop_sign_error"]
    ELSE [ret |-> "on_work", cause |-> "none"]

\* what one call of the loop closure returns
loop_fn_body(mine, sign, syncing) ==
    IF ~mine THEN [ret |-> "no_delay_stop", cause |-> "mine_off"]
    ELSE IF read_stop_sign(sign) = "stop" THEN [ret |-> "no_delay_stop", cause |-> "stop_sign"]
    ELSE IF read_stop_sign(sign) = "Err" THEN [ret |-> "no_delay_stop", cause |-> "stop_sign_error"]
    ELSE [ret |-> while_major_syncing(syncing), cause |-> "none"]

iteration_vars == <<wk_major_syncing, wk_on_work_called, wk_i, wk_job, wk_log>>

import_vars == <<import_lock, importing, ext_pc>>

env_vars == <<wk_mine, stop_sign, wk_syncing, wk_on_exit, stop_sign_writes>>

\* start_worker: worker.on_start().map_err(to_common_error)?
wk_on_start(ok) ==
    /\ wk_pc = "created"
    /\ wk_pc' = IF ok THEN "poll" ELSE "start_failed"
    /\ UNCHANGED <<env_vars, iteration_vars, wk_delay, wk_outcome, wk_break, import_vars>>
    /\ UNCHANGED outside_worker

\* the closure returns no_delay_stop: LoopFn::poll sees Loop::Break
wk_loop_break ==
    /\ wk_pc = "poll"
    /\ loop_fn_body(wk_mine, stop_sign, wk_syncing).ret = "no_delay_stop"
    /\ wk_pc' = "break"
    /\ wk_break' = loop_fn_body(wk_mine, stop_sign, wk_syncing).cause
    /\ UNCHANGED <<env_vars, iteration_vars, wk_delay, wk_outcome, import_vars>>
    /\ UNCHANGED outside_worker

\* the closure returns delayed_continue
wk_loop_delayed_continue ==
    /\ wk_pc = "poll"
    /\ loop_fn_body(wk_mine, stop_sign, wk_syncing).ret = "delayed_continue"
    /\ wk_major_syncing' = Answered(wk_syncing)
    /\ wk_delay' = Delay(SyncDelaySecs)
    /\ wk_pc' = "delay"
    /\ UNCHANGED <<env_vars, wk_on_work_called, wk_i, wk_job, wk_log, wk_outcome, wk_break,
                   import_vars>>
    /\ UNCHANGED outside_worker

\* the closure calls worker.on_work(10000)
wk_loop_on_work ==
    /\ wk_pc = "poll"
    /\ loop_fn_body(wk_mine, stop_sign, wk_syncing).ret = "on_work"
    /\ wk_major_syncing' = Answered(wk_syncing)
    /\ wk_on_work_called' = TRUE
    /\ wk_pc' = "on_job"
    /\ UNCHANGED <<env_vars, wk_i, wk_job, wk_log, wk_delay, wk_outcome, wk_break, import_vars>>
    /\ UNCHANGED outside_worker

\* the task of on_work is over with the given outcome; result is what the task resolved to
task_done(outcome, result) ==
    /\ wk_outcome' = outcome
    /\ IF after_task(result) = "Continue"
       THEN /\ wk_pc' = "delay"
            /\ wk_delay' = Delay(NoDelaySecs)
            /\ UNCHANGED wk_break
       ELSE /\ wk_pc' = "break"
            /\ wk_break' = "task_error"
            /\ UNCHANGED wk_delay

\* the blocks the proposer may have built the worker's job from
WorkerBlocks == [header : [id : {1, 4, 7}, shard_count : {2, 4}, digest : {<<>>}],
                 body : {"body"}]

\* the jobs the manager's get_job may hand to the worker
WorkerJobs == {build_job(block, "authority", t, "now") : block \in WorkerBlocks, t \in PowTargets}

\* ProofNonce::get_with_prefix_len(PREFIX, 12, i): the nonce made of the prefix and i
get_with_prefix_len(prefix, len, i) == i

\* mutant: the seal of an attempt is stamped anew
attempt_seal_restamped(digest_item, i) ==
    [digest_item EXCEPT !.work_proof = WorkProofNonce(get_with_prefix_len("yeeroot-", 12, i)),
                        !.timestamp = "later"]

\* let mut seal = digest_item.clone(); seal.work_proof = proof;
attempt_seal(digest_item, i) ==
    [digest_item EXCEPT !.work_proof = WorkProofNonce(get_with_prefix_len("yeeroot-", 12, i))]

\* mutant: a passing proof does not end the search
after_attempt_keeps_searching(res) == "next"

\* if let Ok((post_digest, hash)) = check_work_proof(&header, &seal) { .. } ; else the next i
after_attempt(res) == IF res.ok THEN "found" ELSE "next"

\* mutant: the block is imported without its body
worker_import_params_no_body(header, body, post_digest) ==
    [origin |-> "Own", header |-> header, post_digests |-> <<post_digest>>,
     body |-> "None", storage_changes |-> "None", fork_choice |-> "LongestChain"]

\* on_proposal_block: BlockImportParams::new(BlockOrigin::Own, header), post digest, body, fork choice
worker_import_params(header, body, post_digest) ==
    [origin |-> "Own", header |-> header, post_digests |-> <<post_digest>>,
     body |-> body, storage_changes |-> "None", fork_choice |-> "LongestChain"]

\* on_work: the job future of self.on_job() resolves
wk_on_job(ok, job) ==
    /\ wk_pc = "on_job"
    /\ IF ok
       THEN /\ wk_pc' = "search"
            /\ wk_i' = 0
            /\ wk_job' = job
            /\ UNCHANGED <<wk_delay, wk_outcome, wk_break>>
       ELSE /\ task_done("job_error", "Err")
            /\ UNCHANGED <<wk_i, wk_job>>
    /\ UNCHANGED <<env_vars, wk_major_syncing, wk_on_work_called, wk_log, import_vars>>
    /\ UNCHANGED outside_worker

\* on_proposal_block: one turn of for i in 0..iter, check_work_proof(&header, &seal)
wk_try_nonce ==
    /\ wk_pc = "search"
    /\ wk_i < WorkIter
    /\ LET seal == attempt_seal(wk_job.digest_item, wk_i)
           res == check_work_proof(wk_job.header, seal) IN
        /\ wk_log' = Append(wk_log, [call |-> "check_work_proof", i |-> wk_i,
                                     header |-> wk_job.header, seal |-> seal, ok |-> res.ok])
        /\ IF after_attempt(res) = "found"
           THEN wk_pc' = "check_scale" /\ UNCHANGED wk_i
           ELSE wk_i' = wk_i + 1 /\ UNCHANGED wk_pc
    /\ UNCHANGED <<env_vars, wk_major_syncing, wk_on_work_called, wk_job, wk_delay, wk_outcome,
                   wk_break, import_vars>>
    /\ UNCHANGED outside_worker

\* on_proposal_block: the for loop ends without a proof, Ok(())
wk_nonces_exhausted ==
    /\ wk_pc = "search"
    /\ wk_i = WorkIter
    /\ task_done("no_proof", "Ok")
    /\ UNCHANGED <<env_vars, iteration_vars, import_vars>>
    /\ UNCHANGED outside_worker

\* on_proposal_block: check_scale::<B, AccountId>(&header, shard_extra)? with the
\* shard_extra start_pow gave to manager and worker alike
wk_check_scale ==
    /\ wk_pc = "check_scale"
    /\ wk_log' = Append(wk_log, [call |-> "check_scale", header |-> wk_job.header,
                                 ok |-> check_scale(wk_job.header, shard_extra).ok])
    /\ IF check_scale(wk_job.header, shard_extra).ok
       THEN wk_pc' = "import_block" /\ UNCHANGED <<wk_delay, wk_outcome, wk_break>>
       ELSE task_done("scale_error", "Ok")
    /\ UNCHANGED <<env_vars, wk_major_syncing, wk_on_work_called, wk_i, wk_job, import_vars>>
    /\ UNCHANGED outside_worker

\* a caller enters import_block through its handle: the Mutex is taken
import_block_begin(caller) ==
    /\ import_lock[handle_of(caller)] = "free"
    /\ import_lock' = [import_lock EXCEPT ![handle_of(caller)] = caller]
    /\ importing' = importing \cup {caller}

\* the caller's import_block returns: the Mutex is given back
import_block_end(caller) ==
    /\ caller \in importing
    /\ import_lock' = [import_lock EXCEPT ![handle_of(caller)] = "free"]
    /\ importing' = importing \ {caller}

\* on_proposal_block: block_import.import_block(import_block, Default::default()) is entered
wk_import_block_begin ==
    /\ wk_pc = "import_block"
    /\ import_block_begin("worker")
    /\ wk_pc' = "importing"
    /\ LET seal == attempt_seal(wk_job.digest_item, wk_i)
           post_digest == check_work_proof(wk_job.header, seal).value.post_digest IN
        wk_log' = Append(wk_log, [call |-> "import_block",
                                  params |-> worker_import_params(wk_job.header, wk_job.body,
                                                                  post_digest)])
    /\ UNCHANGED <<env_vars, wk_major_syncing, wk_on_work_called, wk_i, wk_job, wk_delay,
                   wk_outcome, wk_break, ext_pc>>
    /\ UNCHANGED outside_worker

\* on_proposal_block: import_block returns, ? on its result
wk_import_block_end(ok) ==
    /\ wk_pc = "importing"
    /\ import_block_end("worker")
    /\ task_done(IF ok THEN "mined" ELSE "import_error", "Ok")
    /\ UNCHANGED <<env_vars, iteration_vars, ext_pc>>
    /\ UNCHANGED outside_worker

\* the Delay the loop waits on elapses: LoopFn::poll calls the closure again
wk_delay_elapsed ==
    /\ wk_pc = "delay"
    /\ wk_pc' = "poll"
    /\ wk_delay' = NoDelay
    /\ wk_major_syncing' = Unasked
    /\ wk_on_work_called' = FALSE
    /\ wk_i' = 0
    /\ wk_job' = NoJob
    /\ wk_log' = <<>>
    /\ wk_outcome' = "none"
    /\ UNCHANGED <<env_vars, wk_break, import_vars>>
    /\ UNCHANGED outside_worker

\* mutant: the select completes without on_exit
wk_select_on_exit_unresolved ==
    /\ wk_pc \in {"delay", "on_job"}
    /\ wk_pc' = "selected"
    /\ UNCHANGED <<env_vars, iteration_vars, wk_delay, wk_outcome, wk_break, import_vars>>
    /\ UNCHANGED outside_worker

\* work.select(on_exit): on_exit completes while the loop is pending
wk_select_on_exit ==
    /\ wk_pc \in {"delay", "on_job"}
    /\ wk_on_exit
    /\ wk_pc' = "selected"
    /\ UNCHANGED <<env_vars, iteration_vars, wk_delay, wk_outcome, wk_break, import_vars>>
    /\ UNCHANGED outside_worker

\* .then(move |_| { stop_sign.write().map(|mut sign| { *sign = true; }) .. })
wk_set_stop_sign ==
    /\ wk_pc \in {"break", "selected"}
    /\ wk_pc' = "done"
    /\ stop_sign' = IF stop_sign.poisoned THEN stop_sign ELSE [stop_sign EXCEPT !.value = TRUE]
    /\ stop_sign_writes' = IF stop_sign.poisoned THEN stop_sign_writes
                           ELSE Append(stop_sign_writes, [by |-> "worker", at |-> wk_pc,
                                                            on_exit |-> wk_on_exit])
    /\ UNCHANGED <<wk_mine, wk_syncing, wk_on_exit, iteration_vars, wk_delay, wk_outcome,
                   wk_break, import_vars>>
    /\ UNCHANGED outside_worker

\* a holder of PowWorker::stop_sign() sets the flag
stop_sign_set ==
    /\ ~stop_sign.poisoned
    /\ ~stop_sign.value
    /\ stop_sign' = [stop_sign EXCEPT !.value = TRUE]
    /\ stop_sign_writes' = Append(stop_sign_writes, [by |-> "external", at |-> wk_pc,
                                                       on_exit |-> wk_on_exit])
    /\ UNCHANGED <<wk_mine, wk_syncing, wk_on_exit, wk_pc, iteration_vars, wk_delay,
                   wk_outcome, wk_break, import_vars>>
    /\ UNCHANGED outside_worker

\* a holder of the flag's write lock panics: read() and write() return Err from now on
stop_sign_poisoned ==
    /\ ~stop_sign.poisoned
    /\ stop_sign' = [stop_sign EXCEPT !.poisoned = TRUE]
    /\ UNCHANGED <<wk_mine, wk_syncing, wk_on_exit, stop_sign_writes, wk_pc, iteration_vars, wk_delay,
                   wk_outcome, wk_break, import_vars>>
    /\ UNCHANGED outside_worker

\* the network's sync state changes
sync_oracle_changes ==
    /\ wk_syncing' = ~wk_syncing
    /\ UNCHANGED <<wk_mine, stop_sign, wk_on_exit, stop_sign_writes, wk_pc, iteration_vars, wk_delay,
                   wk_outcome, wk_break, import_vars>>
    /\ UNCHANGED outside_worker

\* the on_exit future completes
on_exit_completes ==
    /\ ~wk_on_exit
    /\ wk_on_exit' = TRUE
    /\ UNCHANGED <<wk_mine, stop_sign, wk_syncing, stop_sign_writes, wk_pc, iteration_vars, wk_delay,
                   wk_outcome, wk_break, import_vars>>
    /\ UNCHANGED outside_worker

\* submit_job of the registered manager, called from outside: check_work_proof and check_scale
ext_submit_job(passed) ==
    /\ ext_pc = "idle"
    /\ ext_pc' = IF passed THEN "import_block" ELSE "rejected"
    /\ UNCHANGED <<env_vars, wk_pc, iteration_vars, wk_delay, wk_outcome, wk_break,
                   import_lock, importing>>
    /\ UNCHANGED outside_worker

\* submit_job: block_import.import_block(import_block, Default::default()) is entered
ext_import_block_begin ==
    /\ ext_pc = "import_block"
    /\ import_block_begin("external")
    /\ ext_pc' = "importing"
    /\ UNCHANGED <<env_vars, wk_pc, iteration_vars, wk_delay, wk_outcome, wk_break>>
    /\ UNCHANGED outside_worker

\* submit_job: import_block returns, ? on its result, Ok(hash)
ext_import_block_end(ok) ==
    /\ ext_pc = "importing"
    /\ import_block_end("external")
    /\ ext_pc' = IF ok THEN "accepted" ELSE "rejected"
    /\ UNCHANGED <<env_vars, wk_pc, iteration_vars, wk_delay, wk_outcome, wk_break>>
    /\ UNCHANGED outside_worker

\* the external caller has its answer and may call again
ext_returned ==
    /\ ext_pc \in {"accepted", "rejected"}
    /\ ext_pc' = "idle"
    /\ UNCHANGED <<env_vars, wk_pc, iteration_vars, wk_delay, wk_outcome, wk_break,
                   import_lock, importing>>
    /\ UNCHANGED outside_worker

WorkerInit ==
    /\ wk_mine \in BOOLEAN
    /\ wk_syncing \in BOOLEAN
    /\ wk_pc = "created"
    /\ stop_sign = [value |-> FALSE, poisoned |-> FALSE]
    /\ wk_on_exit = FALSE
    /\ wk_major_syncing = Unasked
    /\ wk_on_work_called = FALSE
    /\ wk_delay = NoDelay
    /\ wk_i = 0
    /\ wk_job = NoJob
    /\ wk_log = <<>>
    /\ stop_sign_writes = <<>>
    /\ wk_outcome = "none"
    /\ wk_break = "none"
    /\ import_lock = [m \in Mutexes |-> "free"]
    /\ importing = {}
    /\ ext_pc = "idle"

WorkerParked ==
    /\ wk_mine = FALSE
    /\ wk_syncing = FALSE
    /\ wk_pc = "created"
    /\ stop_sign = [value |-> FALSE, poisoned |-> FALSE]
    /\ wk_on_exit = FALSE
    /\ wk_major_syncing = Unasked
    /\ wk_on_work_called = FALSE
    /\ wk_delay = NoDelay
    /\ wk_i = 0
    /\ wk_job = NoJob
    /\ wk_log = <<>>
    /\ stop_sign_writes = <<>>
    /\ wk_outcome = "none"
    /\ wk_break = "none"
    /\ import_lock = [m \in Mutexes |-> "free"]
    /\ importing = {}
    /\ ext_pc = "idle"

WorkerNext ==
    \/ \E ok \in BOOLEAN : wk_on_start(ok)
    \/ wk_loop_break
    \/ wk_loop_delayed_continue
    \/ wk_loop_on_work
    \/ \E ok \in BOOLEAN, job \in WorkerJobs : wk_on_job(ok, job)
    \/ wk_try_nonce
    \/ wk_nonces_exhausted
    \/ wk_check_scale
    \/ wk_import_block_begin
    \/ \E ok \in BOOLEAN : wk_import_block_end(ok)
    \/ wk_delay_elapsed
    \/ wk_select_on_exit
    \/ wk_set_stop_sign
    \/ stop_sign_set
    \/ stop_sign_poisoned
    \/ sync_oracle_changes
    \/ on_exit_completes
    \/ \E passed \in BOOLEAN : ext_submit_job(passed)
    \/ ext_import_block_begin
    \/ \E ok \in BOOLEAN : ext_import_block_end(ok)
    \/ ext_returned

\* the on_work steps of the worker
OnWorkPcs == {"on_job", "search", "check_scale", "import_block", "importing"}

\* the ways an on_work can fail
OnWorkFailures == {"job_error", "scale_error", "import_error", "no_proof"}

\* C15 as claimed: once start_worker has succeeded the loop breaks only when the stop
\* flag has been read true, and with mine = false it does not break at all.
C15_Original_BreaksOnlyOnStopFlag ==
    /\ wk_pc = "break" => wk_break = "stop_sign"
    /\ ~wk_mine => wk_pc # "break"

\* C15 as amended: the loop breaks only because mine is false, because the stop flag
\* was read true, or because reading the stop flag failed; with mine = false it
\* breaks in its first iteration, without sleeping and without attempting work;
\* otherwise the returned future ends only when on_exit has completed.
C15_BreakCauses ==
    /\ wk_pc = "break" => wk_break \in {"mine_off", "stop_sign", "stop_sign_error"}
    /\ wk_break = "mine_off" => ~wk_mine
    /\ wk_break = "stop_sign" => wk_mine /\ stop_sign.value
    /\ wk_break = "stop_sign_error" => wk_mine /\ stop_sign.poisoned
    /\ ~wk_mine => /\ wk_pc \in {"created", "start_failed", "poll", "break", "done"}
                   /\ wk_delay = NoDelay
                   /\ ~wk_on_work_called
    /\ (wk_pc \in {"selected", "done"} /\ wk_break = "none") => wk_on_exit

\* C15 witness: a worker with mine = false has broken out of its loop while the stop
\* flag was still false
C15_Witness ==
    /\ ~wk_mine
    /\ wk_pc = "break"
    /\ wk_break = "mine_off"
    /\ ~stop_sign.value

\* C16: in an iteration in which is_major_syncing() answered true the worker does not
\* call on_work (no get_job, no nonce search, no import_block); it waits on the five
\* second delay, after which the closure is called again.
C16_SyncingIterationDoesNoWork ==
    wk_major_syncing = Answered(TRUE) =>
        /\ ~wk_on_work_called
        /\ wk_pc \notin OnWorkPcs
        /\ wk_outcome = "none"
        /\ "worker" \notin importing
        /\ wk_pc \in {"delay", "selected", "done"}
        /\ wk_pc = "delay" => wk_delay = Delay(SyncDelaySecs)

\* C16 witness: the oracle answered true in this iteration and the worker is waiting
\* on the delay
C16_Witness ==
    /\ wk_major_syncing = Answered(TRUE)
    /\ wk_pc = "delay"
    /\ wk_delay = Delay(SyncDelaySecs)

\* C17: a failure inside on_work (get_job error, check_scale error, import_block
\* error, no proof within the nonce budget) does not end the loop: the loop goes on,
\* through a delay of zero seconds, to a next iteration, and an iteration that works
\* starts by fetching a job.
C17_FailuresDoNotEndLoop ==
    /\ wk_break # "task_error"
    /\ (wk_outcome \in OnWorkFailures /\ wk_pc \notin {"selected", "done"}) =>
           /\ wk_pc = "delay"
           /\ wk_delay = Delay(NoDelaySecs)
    /\ wk_pc = "poll" => wk_outcome = "none" /\ wk_i = 0

\* C17 witness: get_job failed in this iteration and the loop is waiting on the
\* zero delay before its next iteration
C17_Witness ==
    /\ wk_outcome = "job_error"
    /\ wk_pc = "delay"
    /\ wk_delay = Delay(NoDelaySecs)

Attempts == SelectSeq(wk_log, LAMBDA e : e.call = "check_work_proof")

\* the import_block calls of the current on_work
Imports == SelectSeq(wk_log, LAMBDA e : e.call = "import_block")

\* C26: during the nonce search of one on_work, the seal of attempt i differs from the
\* job's digest_item only in work_proof, which is the nonce of index i: authority_id,
\* pow_target, timestamp and relay_proof are the job's, header and body are the job's
\* in every attempt and in the import, and the job keeps the hash it was built with
\* (that of its header under the seal with the unknown work proof).
C26_OnlyWorkProofChanges ==
    /\ wk_job.is_some =>
           /\ wk_job.digest_item.work_proof = WorkProofUnknown
           /\ wk_job.hash = header_hash([wk_job.header EXCEPT
                                 !.digest = Append(@, pow_seal(wk_job.digest_item))])
    /\ \A k \in DOMAIN Attempts :
           /\ Attempts[k].header = wk_job.header
           /\ Attempts[k].seal.authority_id = wk_job.digest_item.authority_id
           /\ Attempts[k].seal.pow_target = wk_job.digest_item.pow_target
           /\ Attempts[k].seal.timestamp = wk_job.digest_item.timestamp
           /\ Attempts[k].seal.relay_proof = wk_job.digest_item.relay_proof
           /\ Attempts[k].seal.work_proof =
                  WorkProofNonce(get_with_prefix_len("yeeroot-", 12, Attempts[k].i))
    /\ \A k \in DOMAIN Imports :
           /\ Imports[k].params.header = wk_job.header
           /\ Imports[k].params.body = wk_job.body

\* C26 witness: the second attempt of a search passed and its block is being imported,
\* so that two seals with different nonces were made from the one job
C26_Witness ==
    /\ Len(Attempts) = 2
    /\ Attempts[1].seal.work_proof # Attempts[2].seal.work_proof
    /\ Len(Imports) = 1

\* C27: one on_work tests at most WorkIter nonces, in the order 0, 1, ..; it stops at
\* the first nonce whose seal passes check_work_proof, and calls import_block at most
\* once; when no nonce of the budget passes it ends with Ok, having tested all of them
\* and imported nothing.
C27_SearchWithinBudget ==
    /\ Len(Attempts) <= WorkIter
    /\ \A k \in DOMAIN Attempts :
           /\ Attempts[k].i = k - 1
           /\ k < Len(Attempts) => ~Attempts[k].ok
    /\ (\E k \in DOMAIN Attempts : Attempts[k].ok) => wk_pc # "search"
    /\ Len(Imports) <= 1
    /\ Len(Imports) = 1 => Attempts[Len(Attempts)].ok
    /\ wk_outcome = "no_proof" =>
           /\ Len(Attempts) = WorkIter
           /\ \A k \in DOMAIN Attempts : ~Attempts[k].ok
           /\ Len(Imports) = 0
           /\ wk_pc \in {"delay", "selected", "done"}

\* C27 witness: the whole budget was tested without a passing nonce, and the on_work
\* has returned
C27_Witness ==
    /\ wk_outcome = "no_proof"
    /\ Len(Attempts) = WorkIter
    /\ wk_pc = "delay"

\* submit_job's check_job: the calls it makes on a job, in order, with what each is given
check_job_calls(job, extra) ==
    LET proof == check_work_proof(job.header, job.digest_item)
        scale == check_scale(job.header, extra)
    IN  <<[call |-> "check_work_proof", header |-> job.header, seal |-> job.digest_item,
           ok |-> proof.ok]>>
        \o (IF after_check_work_proof(proof) = "check_scale"
            THEN <<[call |-> "check_scale", header |-> job.header, ok |-> scale.ok]>>
                 \o (IF after_check_scale(scale) = "import_block"
                     THEN <<[call |-> "import_block",
                             params |-> import_params(job, proof.value.post_digest)]>>
                     ELSE <<>>)
            ELSE <<>>)

\* the place in wk_log of the k-th check_work_proof call, and of the last call made
\* for that attempt
AttemptStart(k) ==
    CHOOSE n \in DOMAIN wk_log :
        /\ wk_log[n].call = "check_work_proof"
        /\ Cardinality({j \in 1..n : wk_log[j].call = "check_work_proof"}) = k
AttemptEnd(k) == IF k < Len(Attempts) THEN AttemptStart(k + 1) - 1 ELSE Len(wk_log)

\* a logged call without the index of its attempt
CallOf(e) == IF e.call = "check_work_proof"
             THEN [call |-> e.call, header |-> e.header, seal |-> e.seal, ok |-> e.ok]
             ELSE e

\* the calls the worker made for its k-th attempt
AttemptCalls(k) ==
    [n \in 1..(AttemptEnd(k) - AttemptStart(k) + 1) |-> CallOf(wk_log[AttemptStart(k) + n - 1])]

IsPrefix(a, b) == Len(a) <= Len(b) /\ \A n \in DOMAIN a : a[n] = b[n]

\* the job of the worker with the seal of its k-th attempt
JobWithSeal(k) == [wk_job EXCEPT !.digest_item = Attempts[k].seal]

\* C28: what the worker does with the seal of an attempt is what submit_job does with
\* the job carrying that seal: the same calls in the same order (check_work_proof, then
\* check_scale, then import_block) with the same arguments (import parameters of origin
\* Own, the post digest, the body, fork choice LongestChain), made under the same
\* conditions; the worker's on_work fails on check_scale or import_block exactly where
\* submit_job's check_job would return that error.
C28_WorkerPathIsSubmitJob ==
    /\ \A k \in DOMAIN Attempts :
           LET reference == check_job_calls(JobWithSeal(k), shard_extra) IN
           /\ IsPrefix(AttemptCalls(k), reference)
           /\ (k < Len(Attempts) \/ wk_pc \in {"importing", "delay", "selected", "done"}) =>
                  AttemptCalls(k) = reference
    /\ wk_outcome = "scale_error" =>
           LET reference == check_job_calls(JobWithSeal(Len(Attempts)), shard_extra) IN
           /\ reference[Len(reference)].call = "check_scale"
           /\ ~reference[Len(reference)].ok
    /\ wk_outcome \in {"import_error", "mined"} =>
           LET reference == check_job_calls(JobWithSeal(Len(Attempts)), shard_extra) IN
           reference[Len(reference)].call = "import_block"

\* C28 witness: the worker is inside import_block for the seal of its second attempt,
\* after a first attempt that failed check_work_proof
C28_Witness ==
    /\ wk_pc = "importing"
    /\ Len(Attempts) = 2
    /\ Len(check_job_calls(JobWithSeal(1), shard_extra)) = 1
    /\ Len(check_job_calls(JobWithSeal(2), shard_extra)) = 3

\* the writes of true to the stop flag made by the worker, and those made by others
WorkerWrites == SelectSeq(stop_sign_writes, LAMBDA w : w.by = "worker")
ExternalWrites == SelectSeq(stop_sign_writes, LAMBDA w : w.by = "external")

\* C29 as claimed: the stop flag is false from construction; the worker writes it true
\* at most once and only when on_exit has resolved; the flag is never true while
\* on_exit is unresolved and no external holder has set it.
C29_Original_WrittenOnlyOnShutdown ==
    /\ stop_sign_writes = <<>> => ~stop_sign.value
    /\ Len(WorkerWrites) <= 1
    /\ \A k \in DOMAIN WorkerWrites : WorkerWrites[k].on_exit
    /\ (stop_sign.value /\ ~wk_on_exit) => Len(ExternalWrites) > 0

\* C29 as amended: the stop flag is false from construction; the worker writes it true
\* at most once, when the future start_worker returned ends, which is after on_exit
\* has resolved or after the loop has broken (mine = false, the flag read true, or
\* the read failed); once that future has ended the flag is true unless its lock is
\* poisoned; while the future has not ended the flag is true only if an external
\* holder has set it.
C29_WrittenWhenWorkerEnds ==
    /\ stop_sign_writes = <<>> => ~stop_sign.value
    /\ Len(WorkerWrites) <= 1
    /\ \A k \in DOMAIN WorkerWrites :
           \/ WorkerWrites[k].at = "selected" /\ WorkerWrites[k].on_exit
           \/ /\ WorkerWrites[k].at = "break"
              /\ wk_break \in {"mine_off", "stop_sign", "stop_sign_error"}
    /\ Len(WorkerWrites) > 0 => wk_pc = "done"
    /\ (wk_pc = "done" /\ ~stop_sign.poisoned) => stop_sign.value
    /\ (stop_sign.value /\ wk_pc # "done") => Len(ExternalWrites) > 0

\* C29 witness: mining is disabled, the loop has broken, and the worker has written
\* the flag true although on_exit is unresolved and nobody else set the flag
C29_Witness ==
    /\ wk_break = "mine_off"
    /\ Len(WorkerWrites) = 1
    /\ Len(ExternalWrites) = 0
    /\ stop_sign.value
    /\ ~wk_on_exit

\* C30: once the stop flag is true it stays true, and the loop observes it at the top
\* of its next iteration: the closure called with the flag true does nothing but
\* break, so no on_work (and with it no get_job and no import_block) is started
\* while the flag is true; only an on_work already in flight goes on, within its
\* one nonce budget.
C30_FlagObservedAtNextIteration ==
    [][stop_sign.value =>
          /\ stop_sign'.value
          /\ (wk_pc = "poll" /\ wk_pc' # "poll") =>
                 /\ wk_pc' = "break"
                 /\ wk_break' \in {"stop_sign", "stop_sign_error", "mine_off"}
          /\ wk_pc \notin OnWorkPcs => wk_pc' \notin OnWorkPcs
          /\ wk_pc \in OnWorkPcs => Len(Attempts') <= WorkIter]_vars

\* C30 witness: the flag was set while an on_work was in progress, and the loop has
\* broken on reading it
C30_Witness ==
    /\ \E k \in DOMAIN ExternalWrites : ExternalWrites[k].at \in OnWorkPcs
    /\ wk_pc = "break"
    /\ wk_break = "stop_sign"

(***************************************************************************)
(* client/consensus/pow: digest.rs, the PoW seal as a header digest item   *)
(***************************************************************************)
\* pub const YEE_POW_ENGINE_ID: ConsensusEngineId = [b'Y', b'e', b'e', b'!']
YEE_POW_ENGINE_ID == "Yee!"

EngineIds == {YEE_POW_ENGINE_ID, "BABE"}

\* the variants of DigestItem that carry an engine id and opaque data
DigestItemKinds == {"Consensus", "Seal", "PreRuntime"}

\* the seals a digest item may be built from
PowSeals ==
    {PowSeal("authority", t, "now", w, "relay_proof") :
        t \in PowTargets, w \in {WorkProofUnknown} \cup {WorkProofNonce(n) : n \in Nonces}}

\* the data a digest item may carry: an encoded seal (kept as the seal it encodes) or
\* bytes that are no seal
DigestData == PowSeals \cup {[undecodable |-> TRUE]}

DigestItems == [item : DigestItemKinds, engine : EngineIds, seal : DigestData]

\* Decode::decode(&mut x).ok() for PowSeal
PowSeal_decode(data) == IF data \in PowSeals THEN Some(data) ELSE None

\* OpaqueDigestItemId::Seal(&engine), OpaqueDigestItemId::Consensus(&engine)
OpaqueDigestItemId(kind, engine) == [kind |-> kind, engine |-> engine]

\* DigestItem::try_to(id): the data of an item of the id's variant and engine, decoded
try_to(item, id) ==
    IF item.item = id.kind /\ item.engine = id.engine
    THEN PowSeal_decode(item.seal)
    ELSE None

\* fn as_pow_seal(&self): self.try_to(OpaqueDigestItemId::Seal(&YEE_POW_ENGINE_ID))
as_pow_seal(item) == try_to(item, OpaqueDigestItemId("Seal", YEE_POW_ENGINE_ID))

NoItem == [item |-> "none"]

NotRead == [read |-> FALSE]

\* a digest item is built from a seal by CompatibleDigestItem::pow_seal
digest_pow_seal(seal) ==
    /\ dg_seal' = Some(seal)
    /\ dg_item' = pow_seal(seal)
    /\ dg_result' = NotRead
    /\ UNCHANGED outside_digest

\* a digest item that pow_seal did not build is taken from a header
digest_other_item(item) ==
    /\ dg_seal' = None
    /\ dg_item' = item
    /\ dg_result' = NotRead
    /\ UNCHANGED outside_digest

\* as_pow_seal is called on the digest item at hand
digest_as_pow_seal ==
    /\ dg_item # NoItem
    /\ dg_result' = [read |-> TRUE, value |-> as_pow_seal(dg_item)]
    /\ UNCHANGED <<dg_seal, dg_item>>
    /\ UNCHANGED outside_digest

DigestInit ==
    /\ dg_seal = None
    /\ dg_item = NoItem
    /\ dg_result = NotRead

DigestParked == DigestInit

DigestNext ==
    \/ \E seal \in PowSeals : digest_pow_seal(seal)
    \/ \E item \in DigestItems : digest_other_item(item)
    \/ digest_as_pow_seal

\* C22: for every PowSeal s, as_pow_seal of the digest item built by pow_seal(s)
\* returns Some(s); as_pow_seal returns None for a digest item of another kind or of
\* another engine id.
C22_Claim_SealReadBack ==
    dg_result.read =>
        /\ dg_seal.is_some => dg_result.value = Some(dg_seal.value)
        /\ (dg_item.item # "Consensus" \/ dg_item.engine # YEE_POW_ENGINE_ID) =>
               dg_result.value = None

(***************************************************************************)
(* Specifications: one per component, the others parked                    *)
(***************************************************************************)

Init == ShardingInit /\ JobParked /\ StartPowParked /\ PowParked /\ CodecParked /\ RelayParked /\ WorkerParked /\ DigestParked

Next == ShardingNext

Spec == Init /\ [][Next]_vars

InitJob == ShardingParked /\ JobInit /\ StartPowParked /\ PowParked /\ CodecParked /\ RelayParked /\ WorkerParked /\ DigestParked

SpecJob == InitJob /\ [][JobNext]_vars

InitStartPow == ShardingParked /\ JobParked /\ StartPowInit /\ PowParked /\ CodecParked /\ RelayParked /\ WorkerParked /\ DigestParked

SpecStartPow == InitStartPow /\ [][StartPowNext]_vars

InitPow == ShardingParked /\ JobParked /\ StartPowParked /\ PowInit /\ CodecParked /\ RelayParked /\ WorkerParked /\ DigestParked

SpecPow == InitPow /\ [][PowNext]_vars

InitCodec == ShardingParked /\ JobParked /\ StartPowParked /\ PowParked /\ CodecInit /\ RelayParked /\ WorkerParked /\ DigestParked

SpecCodec == InitCodec /\ [][CodecNext]_vars

InitDecode == ShardingParked /\ JobParked /\ StartPowParked /\ PowParked /\ DecodeInit /\ RelayParked /\ WorkerParked /\ DigestParked

SpecDecode == InitDecode /\ [][DecodeNext]_vars

InitRelay ==
    ShardingParked /\ JobParked /\ StartPowParked /\ PowParked /\ CodecParked /\ RelayInit
    /\ WorkerParked /\ DigestParked

SpecRelay == InitRelay /\ [][RelayNext]_vars

InitWorker ==
    ShardingParked /\ JobParked /\ StartPowParked /\ PowParked /\ CodecParked /\ RelayParked
    /\ WorkerInit /\ DigestParked

SpecWorker == InitWorker /\ [][WorkerNext]_vars

InitDigest ==
    ShardingParked /\ JobParked /\ StartPowParked /\ PowParked /\ CodecParked /\ RelayParked
    /\ WorkerParked /\ DigestInit

SpecDigest == InitDigest /\ [][DigestNext]_vars

====
